---- MODULE Spec2Model ----
(***************************************************************************)
(* Model of the air-quality ETL transform stage                            *)
(* (src/ETL_AIR_QUALITY_API/transform.py) and of its load stage            *)
(* (src/ETL_AIR_QUALITY_API/load.py), and of the driver of the stages      *)
(* (src/ETL_AIR_QUALITY_API/run_pipeline.py); and of the batch loop of the *)
(* Telco loader (src/ETL_PIPELINE_Telco/scripts/load.py).                  *)
(*                                                                         *)
(* Numbers are fixed-point: the integer n stands for n / 60, so that 50.1   *)
(* and the mean of a few whole readings are exact.                         *)
(***************************************************************************)
EXTENDS Integers, Sequences, FiniteSets, TLC

VARIABLES
  file_paths,  \* the argument of transform_files: a list of files
  fp,          \* position of the loop of line 271 in file_paths
  all_frames,  \* the non-empty frames collected so far
  df,          \* what the last call of flatten_city_json returned
  pc,          \* transform_files: "loop", "done" (returned), "raised" (an
               \* exception left it); a direct call: "call", "returned",
               \* "call_flatten", "flattened"; the script: "main", "exit"
  out,         \* the table returned
  csv,         \* the file written to OUTPUT_FILE
  arg,         \* the argument of a direct call: the value calculate_aqi is
               \* given, the city_name flatten_city_json is given
  ret,         \* what the call of calculate_aqi returned
  entry,       \* the function the run entered through
  raw_dir,     \* the files of RAW_DIR when the script is run
  file_city,   \* the local variable city of flatten_city_json, line 150
  BATCH_SIZE,  \* load.py line 41, read from the environment
  MAX_RETRIES, \* load.py line 42, read from the environment
  total_rows,  \* load_csv_to_supabase: the rows of the CSV
  records,     \* the records built from the rows, lines 114-116
  inserted_rows,
  failed_rows,
  batch_start, \* the loop variable i of line 119: where the batch starts
  attempt,
  success,
  calls,       \* the insert calls made so far: the batch sent and the outcome
  stage,       \* run_pipeline.main: the stage it is at
  runner,      \* per stage, how its import runner ended
  called,      \* the stages whose function was imported and called
  subprocess_runs, \* the scripts run by _run_subprocess, with the return code
  stage_ok,    \* ok_extract, ok_transform, ok_load, ok_analysis
  raw_present, \* RAW_DIR holds a *_raw_* file
  csv_exists,  \* TRANSFORMED_CSV.exists()
  batch_size,  \* Telco load_to_supabase: its parameter
  telco_total_rows, \* the rows of the staged CSV, line 142
  telco_i,     \* the loop variable i of line 148
  telco_attempt, \* the loop variable attempt of line 156
  attempts     \* the insert calls made so far: batch, attempt and how it ended

loadVars ==
  <<BATCH_SIZE, MAX_RETRIES, total_rows, records, inserted_rows, failed_rows,
    batch_start, attempt, success, calls>>

pipeVars ==
  <<stage, runner, called, subprocess_runs, stage_ok, raw_present, csv_exists>>

telcoVars == <<batch_size, telco_total_rows, telco_i, telco_attempt, attempts>>

vars ==
  <<file_paths, fp, all_frames, df, pc, out, csv, arg, ret, entry, raw_dir,
    file_city, loadVars, telcoVars, pipeVars>>

(***************************************************************************)
(* Bounds of the model                                                     *)
(***************************************************************************)
MaxFiles == 2
MaxRows == 3
MaxBatchSize == 2
MaxRetries == 2

\* fixed-point numbers: U(n) is the whole number n, T(n) is n tenths
U(n) == n * 60
T(n) == n * 6

(***************************************************************************)
(* Values.  A JSON document, and every cell of a table, is a node          *)
(*   t = "null"  None / JSON null                                          *)
(*   t = "num"   a number, n in fixed point                                *)
(*   t = "str"   a string s                                                *)
(*   t = "list"  a list, kids[i].val its items                             *)
(*   t = "obj"   an object (dict), kids its key/value pairs in order       *)
(*   t = "nan"   float NaN / pd.NA, the absent marker of pandas            *)
(***************************************************************************)
KV(k, v) == [key |-> k, val |-> v]
None == [t |-> "null", n |-> 0, s |-> "", kids |-> <<>>]
NaN == [t |-> "nan", n |-> 0, s |-> "", kids |-> <<>>]
Num(n) == [t |-> "num", n |-> n, s |-> "", kids |-> <<>>]
Str(s) == [t |-> "str", n |-> 0, s |-> s, kids |-> <<>>]
List(items) ==
  [t |-> "list", n |-> 0, s |-> "",
   kids |-> [i \in 1..Len(items) |-> KV("", items[i])]]
Obj(pairs) == [t |-> "obj", n |-> 0, s |-> "", kids |-> pairs]

Items(v) == [i \in 1..Len(v.kids) |-> v.kids[i].val]
Keys(v) == {v.kids[i].key : i \in 1..Len(v.kids)}

\* isinstance(v, dict), isinstance(v, list)
IsDict(v) == v.t = "obj"
IsList(v) == v.t = "list"

\* k in v, for a dict v
HasKey(v, k) == k \in Keys(v)

\* v.get(k) of a dict v: None when the key is missing
Get(v, k) ==
  IF HasKey(v, k)
  THEN v.kids[CHOOSE i \in 1..Len(v.kids) : v.kids[i].key = k].val
  ELSE None

\* Python truthiness
Truthy(v) ==
  CASE v.t = "null" -> FALSE
    [] v.t = "num" -> v.n # 0
    [] v.t = "str" -> v.s # ""
    [] v.t = "list" -> Len(v.kids) > 0
    [] v.t = "obj" -> Len(v.kids) > 0
    [] OTHER -> TRUE

\* a or b
Or(a, b) == IF Truthy(a) THEN a ELSE b

(***************************************************************************)
(* Numbers written as strings, as pd.to_numeric and float() read them      *)
(***************************************************************************)
IsNumericStr(str) == str \in {"20"}
NumOfStr(str) == IF str = "20" THEN U(20) ELSE 0

\* pd.to_numeric(col, errors="coerce") on one cell
ToNumeric(v) ==
  CASE v.t = "num" -> v
    [] v.t = "str" /\ IsNumericStr(v.s) -> Num(NumOfStr(v.s))
    [] OTHER -> NaN

\* pd.notnull(x)
NotNull(v) == v.t \notin {"null", "nan"}

\* float(x): [ok, v]; None, lists, dicts and non-numeric strings raise
Float(x) ==
  CASE x.t = "num" -> [ok |-> TRUE, v |-> x]
    [] x.t = "nan" -> [ok |-> TRUE, v |-> NaN]
    [] x.t = "str" /\ IsNumericStr(x.s) -> [ok |-> TRUE, v |-> Num(NumOfStr(x.s))]
    [] OTHER -> [ok |-> FALSE, v |-> None]

(***************************************************************************)
(* Constants of transform.py                                               *)
(***************************************************************************)
POLLUTANT_MAPPING ==
  << <<"pm10", "pm10">>, <<"pm25", "pm2_5">>, <<"pm2_5", "pm2_5">>,
     <<"co", "carbon_monoxide">>, <<"no2", "nitrogen_dioxide">>,
     <<"so2", "sulphur_dioxide">>, <<"o3", "ozone">>,
     <<"uv_index", "uv_index">>, <<"uvi", "uv_index">>, <<"uv", "uv_index">> >>

POLLUTANT_COLS ==
  <<"pm10", "pm2_5", "carbon_monoxide", "nitrogen_dioxide",
    "sulphur_dioxide", "ozone", "uv_index">>

PollutantSet == {POLLUTANT_COLS[i] : i \in 1..Len(POLLUTANT_COLS)}

FrameCols == <<"city", "time">> \o POLLUTANT_COLS

(***************************************************************************)
(* Derived metrics                                                         *)
(***************************************************************************)
\* calculate_aqi with the band limits exclusive (< written for <=)
calculate_aqi_exclusive(pm2_5) ==
  IF pm2_5.t = "null" THEN "absent"
  ELSE IF ~Float(pm2_5).ok THEN "absent"
  ELSE LET pm == Float(pm2_5).v IN
    IF pm.t = "num" /\ pm.n < U(50) THEN "Good"
    ELSE IF pm.t = "num" /\ pm.n < U(100) THEN "Moderate"
    ELSE IF pm.t = "num" /\ pm.n < U(200) THEN "Unhealthy"
    ELSE IF pm.t = "num" /\ pm.n < U(300) THEN "Very Unhealthy"
    ELSE "Hazardous"

\* calculate_aqi(pm2_5): "absent" stands for the returned None.  float(NaN)
\* is NaN and every comparison with NaN is false, so a NaN argument falls
\* through to the last branch.
calculate_aqi(pm2_5) ==
  IF pm2_5.t = "null" THEN "absent"
  ELSE IF ~Float(pm2_5).ok THEN "absent"
  ELSE LET pm == Float(pm2_5).v IN
    IF pm.t = "num" /\ pm.n <= U(50) THEN "Good"
    ELSE IF pm.t = "num" /\ pm.n <= U(100) THEN "Moderate"
    ELSE IF pm.t = "num" /\ pm.n <= U(200) THEN "Unhealthy"
    ELSE IF pm.t = "num" /\ pm.n <= U(300) THEN "Very Unhealthy"
    ELSE "Hazardous"

\* the inner s(x) of calculate_severity: None and a failing float() give
\* 0.0; float(NaN) is NaN
s(x) ==
  IF x.t = "null" THEN Num(0)
  ELSE IF ~Float(x).ok THEN Num(0)
  ELSE Float(x).v

\* float multiplication by a weight and float addition: NaN propagates
Mul(x, w) == IF x.t = "nan" THEN NaN ELSE Num(x.n * w)
Add(x, y) == IF x.t = "nan" \/ y.t = "nan" THEN NaN ELSE Num(x.n + y.n)

\* calculate_severity(row): row.get(col, 0) is the row's cell, the column
\* being present in every row of the table
calculate_severity(row) ==
  Add(Add(Add(Add(Add(
    Mul(s(row.pm2_5), 5),
    Mul(s(row.pm10), 3)),
    Mul(s(row.nitrogen_dioxide), 4)),
    Mul(s(row.sulphur_dioxide), 4)),
    Mul(s(row.carbon_monoxide), 2)),
    Mul(s(row.ozone), 3))

\* calculate_risk(severity): comparisons with NaN are false
calculate_risk(severity) ==
  IF ~Float(severity).ok THEN "absent"
  ELSE LET sev == Float(severity).v IN
    IF sev.t = "num" /\ sev.n > U(400) THEN "High Risk"
    ELSE IF sev.t = "num" /\ sev.n > U(200) THEN "Moderate Risk"
    ELSE "Low Risk"

(***************************************************************************)
(* Timestamps.  A parsed time is [k, d, h, m, utc]: k = "nat" is NaT, d    *)
(* the day of January 2024 (0: the epoch day), h the hour, m the minute,   *)
(* utc whether the value is timezone-aware (UTC).                          *)
(***************************************************************************)
NaT == [k |-> "nat", d |-> 0, h |-> 0, m |-> 0, utc |-> FALSE]
Time(d, h, m, utc) == [k |-> "t", d |-> d, h |-> h, m |-> m, utc |-> utc]

\* the timestamp strings of the model and what dateutil reads in them
ParsesAsTime(str) ==
  str \in {"2024-01-01T00:00:00Z", "2024-01-01T00:30:00Z",
          "2024-01-01T01:00:00Z", "2024-01-01T00:30:00"}
ParseTime(str) ==
  CASE str = "2024-01-01T00:00:00Z" -> Time(1, 0, 0, TRUE)
    [] str = "2024-01-01T00:30:00Z" -> Time(1, 0, 30, TRUE)
    [] str = "2024-01-01T01:00:00Z" -> Time(1, 1, 0, TRUE)
    [] str = "2024-01-01T00:30:00" -> Time(1, 0, 30, FALSE)
    [] OTHER -> NaT

\* pd.to_datetime(t) of one scalar: [ok, v]; a string that is no timestamp
\* raises, None gives NaT, a small number is nanoseconds after the epoch
to_datetime(t) ==
  CASE t.t = "str" /\ ParsesAsTime(t.s) -> [ok |-> TRUE, v |-> ParseTime(t.s)]
    [] t.t = "null" -> [ok |-> TRUE, v |-> NaT]
    [] t.t = "nan" -> [ok |-> TRUE, v |-> NaT]
    [] t.t = "num" -> [ok |-> TRUE, v |-> Time(0, 0, 0, FALSE)]
    [] OTHER -> [ok |-> FALSE, v |-> NaT]

\* one cell of pd.to_datetime(col, errors="coerce", utc=True)
to_datetime_utc(t) ==
  LET r == to_datetime(t) IN
  IF r.ok /\ r.v.k = "t" THEN [r.v EXCEPT !.utc = TRUE] ELSE NaT

\* Timestamp.floor("H")
floor_H(t) == IF t.k = "t" THEN [t EXCEPT !.m = 0] ELSE t

(***************************************************************************)
(* Strings as character sequences, for the string operations               *)
(***************************************************************************)
\* the characters of the strings the model's payloads and tables hold
Chars(str) ==
  CASE str = "pm10" -> <<"p", "m", "1", "0">>
    [] str = "pm25" -> <<"p", "m", "2", "5">>
    [] str = "pm2_5" -> <<"p", "m", "2", "_", "5">>
    [] str = "PM2.5" -> <<"P", "M", "2", ".", "5">>
    [] str = " PM10 " -> <<" ", "P", "M", "1", "0", " ">>
    [] str = "co" -> <<"c", "o">>
    [] str = "no2" -> <<"n", "o", "2">>
    [] str = "so2" -> <<"s", "o", "2">>
    [] str = "o3" -> <<"o", "3">>
    [] str = "O3" -> <<"O", "3">>
    [] str = "uv_index" -> <<"u", "v", "_", "i", "n", "d", "e", "x">>
    [] str = "uv-index" -> <<"u", "v", "-", "i", "n", "d", "e", "x">>
    [] str = "uvi" -> <<"u", "v", "i">>
    [] str = "uv" -> <<"u", "v">>
    [] str = "carbon_monoxide" ->
         <<"c", "a", "r", "b", "o", "n", "_", "m", "o", "n", "o", "x", "i", "d", "e">>
    [] str = "nitrogen_dioxide" ->
         <<"n", "i", "t", "r", "o", "g", "e", "n", "_", "d", "i", "o", "x", "i", "d", "e">>
    [] str = "sulphur_dioxide" ->
         <<"s", "u", "l", "p", "h", "u", "r", "_", "d", "i", "o", "x", "i", "d", "e">>
    [] str = "ozone" -> <<"o", "z", "o", "n", "e">>
    [] str = "temp" -> <<"t", "e", "m", "p">>
    [] str = "None" -> <<"N", "o", "n", "e">>
    [] str = "" -> <<>>
    [] str = "City" -> <<"C", "i", "t", "y">>
    [] str = "city" -> <<"c", "i", "t", "y">>
    [] str = "time" -> <<"t", "i", "m", "e">>
    [] str = "time_hour" -> <<"t", "i", "m", "e", "_", "h", "o", "u", "r">>
    [] str = "delhi_raw_1" -> <<"d", "e", "l", "h", "i", "_", "r", "a", "w", "_", "1">>
    [] str = "new_delhi_raw_2" ->
         <<"n", "e", "w", "_", "d", "e", "l", "h", "i", "_", "r", "a", "w", "_", "2">>
    [] str = "_raw_3" -> <<"_", "r", "a", "w", "_", "3">>
    [] str = "notes" -> <<"n", "o", "t", "e", "s">>
    [] str = "Delhi" -> <<"D", "e", "l", "h", "i">>
    [] str = "New Delhi" -> <<"N", "e", "w", " ", "D", "e", "l", "h", "i">>
    [] str = "New" -> <<"N", "e", "w">>
    [] str = "Notes" -> <<"N", "o", "t", "e", "s">>
    [] OTHER -> <<str>>

\* the string of a character sequence, among the strings a file name yields
NameStrings == {"", "Delhi", "New Delhi", "New", "Notes"}
Join(cs) == CHOOSE str \in NameStrings : Chars(str) = cs

\* str.lower() of one character
LowerChar(c) ==
  CASE c = "P" -> "p" [] c = "M" -> "m" [] c = "O" -> "o" [] c = "N" -> "n"
    [] c = "C" -> "c" [] c = "S" -> "s" [] c = "U" -> "u" [] c = "V" -> "v"
    [] OTHER -> c
Lower(cs) == [i \in 1..Len(cs) |-> LowerChar(cs[i])]

\* str.strip()
RECURSIVE Strip(_)
Strip(cs) ==
  IF cs = <<>> THEN cs
  ELSE IF Head(cs) = " " THEN Strip(Tail(cs))
  ELSE IF cs[Len(cs)] = " " THEN Strip(SubSeq(cs, 1, Len(cs) - 1))
  ELSE cs

\* str.replace(old, new) for one-character old and new
Replace(cs, old, new) == [i \in 1..Len(cs) |-> IF cs[i] = old THEN new ELSE cs[i]]

\* POLLUTANT_MAPPING.get(x, x) on character sequences
MappingGet(cs) ==
  IF \E j \in 1..Len(POLLUTANT_MAPPING) : Chars(POLLUTANT_MAPPING[j][1]) = cs
  THEN Chars(POLLUTANT_MAPPING[
         CHOOSE j \in 1..Len(POLLUTANT_MAPPING) : Chars(POLLUTANT_MAPPING[j][1]) = cs][2])
  ELSE cs

\* astype(str) of a parameter cell
AsStr(v) == IF v.t = "str" THEN Chars(v.s) ELSE Chars("None")

\* lines 234-239: strip, lower, replace by the mapping, replace "." and "-",
\* map again
parameter_norm(parameter) ==
  MappingGet(Replace(Replace(MappingGet(Lower(Strip(AsStr(parameter)))),
                             ".", "_"), "-", "_"))

(***************************************************************************)
(* City inference                                                          *)
(***************************************************************************)
\* _infer_city_from_payload(payload): None when nothing is found
_infer_city_from_payload(payload) ==
  IF ~IsDict(payload) THEN None
  ELSE IF Truthy(Get(payload, "city")) THEN Get(payload, "city")
  ELSE IF Truthy(Get(payload, "meta")) /\ IsDict(Get(payload, "meta"))
          /\ Truthy(Get(Get(payload, "meta"), "city"))
    THEN Get(Get(payload, "meta"), "city")
  ELSE
    LET results == Get(payload, "results")
        locs == Get(payload, "locations")
        r1 == Items(results)[1]
        l1 == Items(locs)[1]
    IN
    IF IsList(results) /\ Truthy(results) /\ IsDict(r1) /\ Truthy(Get(r1, "city"))
      THEN Get(r1, "city")
    ELSE IF IsList(results) /\ Truthy(results) /\ IsDict(r1)
            /\ Truthy(Get(r1, "location"))
      THEN Get(r1, "location")
    ELSE IF IsList(locs) /\ Truthy(locs) /\ IsDict(l1) /\ Truthy(Get(l1, "city"))
      THEN Get(l1, "city")
    ELSE IF IsList(locs) /\ Truthy(locs) /\ IsDict(l1) /\ Truthy(Get(l1, "name"))
      THEN Get(l1, "name")
    ELSE None

\* str.split(sep)[0]: the characters before the first sep
RECURSIVE Split0(_, _)
Split0(cs, sep) ==
  IF cs = <<>> THEN <<>>
  ELSE IF Len(cs) >= Len(sep) /\ SubSeq(cs, 1, Len(sep)) = sep THEN <<>>
  ELSE <<Head(cs)>> \o Split0(Tail(cs), sep)

\* name.split("_raw_")[0] and name.split("_")[0]
SplitRaw0(stem) == Split0(Chars(stem), <<"_", "r", "a", "w", "_">>)
SplitUnderscore0(stem) == Split0(Chars(stem), <<"_">>)

\* str.upper() of one character, and the cased characters
UpperChar(c) ==
  CASE c = "d" -> "D" [] c = "n" -> "N" [] c = "e" -> "E" [] c = "l" -> "L"
    [] c = "h" -> "H" [] c = "i" -> "I" [] c = "w" -> "W" [] c = "o" -> "O"
    [] c = "t" -> "T" [] c = "s" -> "S"
    [] OTHER -> c
Cased(c) == UpperChar(c) # c \/ LowerChar(c) # c

\* str.title(): a cased character is upper after an uncased one (or at the
\* start), lower after a cased one
Title(cs) ==
  [i \in 1..Len(cs) |->
     IF i = 1 \/ ~Cased(cs[i - 1]) THEN UpperChar(cs[i]) ELSE LowerChar(cs[i])]

\* token.replace("_", " ").title()
TitleSpaced(token) == Join(Title(Replace(token, "_", " ")))

\* _infer_city_from_filename(path), of the path's stem
_infer_city_from_filename(stem) ==
  IF SplitRaw0(stem) # <<>> THEN Str(TitleSpaced(SplitRaw0(stem)))
  ELSE IF SplitUnderscore0(stem) # <<>> THEN Str(TitleSpaced(SplitUnderscore0(stem)))
  ELSE None

\* the file name asked before the payload
InferCity_filename_first(city_name, payload, stem) ==
  Or(Or(Or(city_name, _infer_city_from_filename(stem)),
        _infer_city_from_payload(payload)),
     Str("Unknown"))

\* line 150: city_name or payload city or filename city or "Unknown"
InferCity(city_name, payload, stem) ==
  Or(Or(Or(city_name, _infer_city_from_payload(payload)),
        _infer_city_from_filename(stem)),
     Str("Unknown"))

(***************************************************************************)
(* flatten_city_json, case 1: hourly arrays                                *)
(***************************************************************************)
\* rec with rec[col] = val
SetCol(rec, col, val) ==
  [c \in DOMAIN rec \cup {col} |-> IF c = col THEN val ELSE rec[c]]

\* lines 161-171: the loop over POLLUTANT_MAPPING.items() from entry j on,
\* each entry assigning rec[dest_col]
RECURSIVE FillRec(_, _, _, _)
FillRec(rec, hourly, i, j) ==
  IF j > Len(POLLUTANT_MAPPING) THEN rec
  ELSE
    LET src_key == POLLUTANT_MAPPING[j][1]
        dest_col == POLLUTANT_MAPPING[j][2]
        values == IF HasKey(hourly, src_key) THEN Get(hourly, src_key)
                  ELSE IF HasKey(hourly, dest_col) THEN Get(hourly, dest_col)
                  ELSE None
        cell == IF IsList(values) /\ i <= Len(values.kids)
                THEN Items(values)[i] ELSE None
    IN FillRec(SetCol(rec, dest_col, cell), hourly, i, j + 1)

\* line 160 and the loop: the record of index i (1-based here)
HourlyRec(city, hourly, i) ==
  FillRec([city |-> city, time |-> to_datetime(Items(Get(hourly, "time"))[i]).v],
          hourly, i, 1)

\* line 156: isinstance(hourly, dict) and hourly.get("time")
IsHourly(payload) ==
  IsDict(Get(payload, "hourly")) /\ Truthy(Get(Get(payload, "hourly"), "time"))

\* lines 157-173; the times of the model's payloads are lists
FlattenHourly(city, hourly) ==
  LET times == Items(Get(hourly, "time")) IN
  IF \E i \in 1..Len(times) : ~to_datetime(times[i]).ok
  THEN [status |-> "raise", cols |-> <<>>, rows |-> <<>>]
  ELSE [status |-> "ok", cols |-> FrameCols,
        rows |-> [i \in 1..Len(times) |-> HourlyRec(city, hourly, i)]]

(***************************************************************************)
(* flatten_city_json, case 2: measurement lists                            *)
(***************************************************************************)
Raise == [ok |-> FALSE, ms |-> <<>>]
Tuple(city, t, parameter, value) ==
  [city |-> city, time |-> t, parameter |-> parameter, value |-> value]

\* what "for m in v" yields, and whether v can be iterated at all: a list
\* yields its items, a dict its keys, a string its characters (here the
\* string itself stands for them: all are strings)
Iterable(v) == v.t \in {"list", "obj", "str"}
IterItems(v) ==
  CASE v.t = "list" -> Items(v)
    [] v.t = "obj" -> [i \in 1..Len(v.kids) |-> Str(v.kids[i].key)]
    [] v.t = "str" /\ v.s # "" -> <<v>>
    [] OTHER -> <<>>

\* m.get("lastUpdated") or (m.get("date") and m["date"].get("utc")) or m.get("date")
DateRaises(m) ==
  ~Truthy(Get(m, "lastUpdated")) /\ Truthy(Get(m, "date")) /\ ~IsDict(Get(m, "date"))
DateOf(m) ==
  IF Truthy(Get(m, "lastUpdated")) THEN Get(m, "lastUpdated")
  ELSE IF Truthy(Get(m, "date")) /\ Truthy(Get(Get(m, "date"), "utc"))
    THEN Get(Get(m, "date"), "utc")
  ELSE Get(m, "date")

\* concatenation of the tuple lists rs[1..], a raise in any of them raising
RECURSIVE Chain(_)
Chain(rs) ==
  IF rs = <<>> THEN [ok |-> TRUE, ms |-> <<>>]
  ELSE IF ~Head(rs).ok \/ ~Chain(Tail(rs)).ok THEN Raise
  ELSE [ok |-> TRUE, ms |-> Head(rs).ms \o Chain(Tail(rs)).ms]

\* lines 182-187: the measurements of one v2 location
V2Measurement(m, loc_city) ==
  IF ~IsDict(m) \/ DateRaises(m) THEN Raise
  ELSE [ok |-> TRUE, ms |-> <<Tuple(loc_city,
          DateOf(m),
          Or(Or(Get(m, "parameter"), Get(m, "param")), Get(m, "name")),
          Get(m, "value"))>>]

\* loc.get("measurements", [])
MeasurementsOf(loc) ==
  IF HasKey(loc, "measurements") THEN Get(loc, "measurements") ELSE List(<<>>)

\* lines 180-187
V2Loc(loc, city) ==
  IF ~IsDict(loc) THEN Raise
  ELSE IF ~Iterable(MeasurementsOf(loc)) THEN Raise
  ELSE
    LET loc_city == Or(Or(Get(loc, "city"), Get(loc, "location")), city)
        it == IterItems(MeasurementsOf(loc))
    IN Chain([i \in 1..Len(it) |-> V2Measurement(it[i], loc_city)])

\* lines 193-197: one entry of a v3 location's parameters
V3Param(p_item, loc, loc_city) ==
  IF ~IsDict(p_item) THEN Raise
  ELSE [ok |-> TRUE, ms |-> <<Tuple(loc_city,
          Or(Or(Get(p_item, "lastUpdated"), Get(p_item, "lastUpdatedAt")),
             Get(loc, "lastUpdated")),
          Or(Get(p_item, "parameter"), Get(p_item, "name")),
          IF HasKey(p_item, "lastValue") THEN Get(p_item, "lastValue")
          ELSE Get(p_item, "value"))>>]

\* lines 198-202: one entry of a v3 location's measurements
V3Measurement(m, loc_city) ==
  IF ~IsDict(m) \/ DateRaises(m) THEN Raise
  ELSE [ok |-> TRUE, ms |-> <<Tuple(loc_city,
          DateOf(m),
          Or(Get(m, "parameter"), Get(m, "name")),
          Get(m, "value"))>>]

\* lines 190-202
V3Loc(loc, city) ==
  IF ~IsDict(loc) THEN Raise
  ELSE
    LET loc_city == Or(Or(Get(loc, "city"), Get(loc, "name")), city)
        params == Or(Get(loc, "parameters"), List(<<>>))
        meas == Or(MeasurementsOf(loc), List(<<>>))
        pit == IterItems(params)
        mit == IterItems(meas)
    IN
    IF ~Iterable(params) THEN Raise
    ELSE IF ~Chain([i \in 1..Len(pit) |-> V3Param(pit[i], loc, loc_city)]).ok THEN Raise
    ELSE IF ~Iterable(meas) THEN Raise
    ELSE Chain(<<Chain([i \in 1..Len(pit) |-> V3Param(pit[i], loc, loc_city)]),
                 Chain([i \in 1..Len(mit) |-> V3Measurement(mit[i], loc_city)])>>)

\* k.lower() of the keys of the model's payloads
LowerKey(k) ==
  CASE k = "Measurements" -> "measurements"
    [] k = "Values" -> "values"
    [] OTHER -> k

\* flattening of a sequence of sequences
RECURSIVE Flat(_)
Flat(ss) == IF ss = <<>> THEN <<>> ELSE Head(ss) \o Flat(Tail(ss))

\* lines 206-216: _walk_for_measurements(obj), the items it yields in order
RECURSIVE _walk_for_measurements(_)
_walk_for_measurements(obj) ==
  IF IsDict(obj) THEN
    Flat([i \in 1..Len(obj.kids) |->
           IF LowerKey(obj.kids[i].key) \in {"measurements", "values"}
              /\ IsList(obj.kids[i].val)
           THEN Items(obj.kids[i].val)
           ELSE _walk_for_measurements(obj.kids[i].val)])
  ELSE IF IsList(obj) THEN
    Flat([i \in 1..Len(obj.kids) |-> _walk_for_measurements(obj.kids[i].val)])
  ELSE <<>>

\* lines 217-221: one item the walk found
WalkMeasurement(m, city) ==
  IF ~IsDict(m) \/ DateRaises(m) THEN Raise
  ELSE [ok |-> TRUE, ms |-> <<Tuple(city,
          DateOf(m),
          Or(Or(Get(m, "parameter"), Get(m, "name")), Get(m, "param")),
          Get(m, "value"))>>]

\* lines 177-221: the measurement tuples of a dict payload, or a raise
Measurements(payload, city) ==
  IF HasKey(payload, "results") /\ IsList(Get(payload, "results")) THEN
    LET locs == Items(Get(payload, "results")) IN
    Chain([i \in 1..Len(locs) |-> V2Loc(locs[i], city)])
  ELSE IF HasKey(payload, "locations") /\ IsList(Get(payload, "locations")) THEN
    LET locs == Items(Get(payload, "locations")) IN
    Chain([i \in 1..Len(locs) |-> V3Loc(locs[i], city)])
  ELSE
    LET found == _walk_for_measurements(payload) IN
    Chain([i \in 1..Len(found) |-> WalkMeasurement(found[i], city)])

(***************************************************************************)
(* flatten_city_json: the pivot of the measurements, lines 224-262         *)
(***************************************************************************)
\* the city labels of the model in the order Python sorts strings
CityOrder == <<"Delhi", "Mumbai", "New Delhi", "Notes", "Pune", "Unknown">>
CityRank(city) ==
  IF \E i \in 1..Len(CityOrder) : CityOrder[i] = city.s
  THEN CHOOSE i \in 1..Len(CityOrder) : CityOrder[i] = city.s
  ELSE 0

\* (city, time_hour) sorts before (city2, time_hour2)
KeyBefore(a, b) ==
  \/ CityRank(a[1]) < CityRank(b[1])
  \/ /\ CityRank(a[1]) = CityRank(b[1])
     /\ \/ a[2].d < b[2].d
        \/ a[2].d = b[2].d /\ a[2].h < b[2].h

RECURSIVE SortKeys(_)
SortKeys(K) ==
  IF K = {} THEN <<>>
  ELSE LET first == CHOOSE a \in K : \A b \in K \ {a} : KeyBefore(a, b)
       IN <<first>> \o SortKeys(K \ {first})

RECURSIVE Sum(_)
Sum(ns) == IF ns = <<>> THEN 0 ELSE Head(ns) + Sum(Tail(ns))

\* lines 227-241: the rows of dfm, those with an unparseable time dropped
Dfm(measurements) ==
  LET parsed == [i \in 1..Len(measurements) |->
                  [city |-> measurements[i].city,
                   time |-> to_datetime_utc(measurements[i].time),
                   time_hour |-> floor_H(to_datetime_utc(measurements[i].time)),
                   parameter_norm |-> parameter_norm(measurements[i].parameter),
                   value_num |-> ToNumeric(measurements[i].value)]]
      NotNaT(r) == r.time.k = "t"
  IN SelectSeq(parsed, NotNaT)

\* the group's first value in place of its mean
GroupMean_first(dfm, city, time_hour, pn) ==
  LET InGroup(r) == /\ r.city = city /\ r.time_hour = time_hour
                    /\ r.parameter_norm = pn /\ r.value_num.t = "num"
      grp == SelectSeq(dfm, InGroup)
  IN IF grp = <<>> THEN NaN ELSE grp[1].value_num

\* groupby(city, time_hour, parameter_norm).mean(): NaN values are skipped,
\* a group with no value is NaN
GroupMean(dfm, city, time_hour, pn) ==
  LET InGroup(r) == /\ r.city = city /\ r.time_hour = time_hour
                    /\ r.parameter_norm = pn /\ r.value_num.t = "num"
      grp == SelectSeq(dfm, InGroup)
  IN IF grp = <<>> THEN NaN
     ELSE Num(Sum([i \in 1..Len(grp) |-> grp[i].value_num.n]) \div Len(grp))

\* lines 244-262: one row per (city, time_hour) that has a value in some
\* parameter column, sorted by the key; a pollutant without values is NaN
Pivot(dfm) ==
  LET keys == {<<dfm[i].city, dfm[i].time_hour>> : i \in
                 {j \in 1..Len(dfm) : dfm[j].value_num.t = "num"}}
      sorted == SortKeys(keys)
      Row(key) ==
        [c \in {"city", "time"} \cup PollutantSet |->
          IF c = "city" THEN key[1]
          ELSE IF c = "time" THEN key[2]
          ELSE GroupMean(dfm, key[1], key[2], Chars(c))]
  IN [i \in 1..Len(sorted) |-> Row(sorted[i])]

(***************************************************************************)
(* flatten_city_json(file_path, city_name)                                 *)
(* A file is [stem, parses, payload]: the stem of its name, whether        *)
(* json.load reads its body, and the document it reads.                    *)
(* The result is [status, cols, rows]; status "raise" is an exception.     *)
(***************************************************************************)
Raised == [status |-> "raise", cols |-> <<>>, rows |-> <<>>]
EmptyFrame == [status |-> "ok", cols |-> FrameCols, rows |-> <<>>]

\* lines 249 and 258: a parameter column named like an index level cannot
\* be inserted by reset_index() (ValueError), and one named "time" makes
\* pv["time"] a two-column frame that pd.to_datetime rejects; the column
\* exists when the parameter has a numeric value
IndexNames == {Chars("city"), Chars("time_hour"), Chars("time")}
ColumnClash(dfm) ==
  \E i \in 1..Len(dfm) :
    dfm[i].value_num.t = "num" /\ dfm[i].parameter_norm \in IndexNames

\* lines 224-265: the table of the collected measurement tuples
PivotFrame(found) ==
  IF ~found.ok THEN Raised
  ELSE IF found.ms = <<>> THEN EmptyFrame
  ELSE IF Dfm(found.ms) = <<>> THEN EmptyFrame
  ELSE IF ColumnClash(Dfm(found.ms)) THEN Raised
  ELSE [status |-> "ok", cols |-> FrameCols, rows |-> Pivot(Dfm(found.ms))]

flatten_city_json(file, city_name) ==
  IF ~file.parses THEN Raised
  ELSE IF ~IsDict(file.payload) THEN Raised
  ELSE
    LET payload == file.payload
        city == InferCity(city_name, payload, file.stem)
    IN
    IF IsHourly(payload) THEN FlattenHourly(city, Get(payload, "hourly"))
    ELSE PivotFrame(Measurements(payload, city))

(***************************************************************************)
(* transform_files(file_paths)                                             *)
(***************************************************************************)
\* lines 290-292 on one row
CoerceRow(row) ==
  [c \in DOMAIN row |-> IF c \in PollutantSet THEN ToNumeric(row[c]) ELSE row[c]]

\* dropna with how="any": the row survives when no pollutant is missing
HasPollutant_any(row) == \A c \in PollutantSet : row[c].t # "nan"

\* line 295: the row survives dropna(subset=POLLUTANT_COLS, how="all")
HasPollutant(row) == \E c \in PollutantSet : row[c].t # "nan"

\* .dt.hour of one cell
HourOf(t) == IF t.k = "t" THEN Num(U(t.h)) ELSE NaN

\* lines 298-301 on one row
Derive(row) ==
  LET AQI == IF NotNull(row.pm2_5) THEN calculate_aqi(row.pm2_5) ELSE "absent"
      severity == calculate_severity(row)
  IN [c \in DOMAIN row \cup {"AQI", "severity", "risk", "hour"} |->
       CASE c = "AQI" -> AQI
         [] c = "severity" -> severity
         [] c = "risk" -> calculate_risk(severity)
         [] c = "hour" -> HourOf(row.time)
         [] OTHER -> row[c]]

\* the time column holds datetimes of one kind (all UTC or all naive), so
\* that the .dt accessor of line 301 exists; a mixed column has dtype object
DatetimeLike(rows) ==
  \A i, j \in 1..Len(rows) :
    (rows[i].time.k = "t" /\ rows[j].time.k = "t") => rows[i].time.utc = rows[j].time.utc

\* lines 283-301: the table built from the frames
Table(frames) ==
  LET df_all == Flat(frames)
      coerced == [i \in 1..Len(df_all) |-> CoerceRow(df_all[i])]
      kept == SelectSeq(coerced, HasPollutant)
  IN [i \in 1..Len(kept) |-> Derive(kept[i])]

OutCols == FrameCols \o <<"AQI", "severity", "risk", "hour">>
EmptyCols == FrameCols \o <<"aqi_category", "severity", "risk", "hour">>

(***************************************************************************)
(* The raw files of the model                                              *)
(***************************************************************************)
T0 == Str("2024-01-01T00:00:00Z")
T030 == Str("2024-01-01T00:30:00Z")
T1 == Str("2024-01-01T01:00:00Z")
T030Naive == Str("2024-01-01T00:30:00")
TBad == Str("not-a-date")

File(stem, payload) == [stem |-> stem, parses |-> TRUE, payload |-> payload]
Unparseable(stem) == [stem |-> stem, parses |-> FALSE, payload |-> None]

Hourly(pairs) == Obj(<<KV("hourly", Obj(pairs))>>)

\* hourly payloads with one timestamp and all six weighted pollutants
FullHourly(pm2_5, pm10) ==
  Hourly(<<KV("time", List(<<T0>>)),
           KV("pm2_5", List(<<Num(pm2_5)>>)), KV("pm10", List(<<Num(pm10)>>)),
           KV("co", List(<<Num(0)>>)), KV("no2", List(<<Num(0)>>)),
           KV("so2", List(<<Num(0)>>)), KV("o3", List(<<Num(0)>>))>>)

HourlyFiles ==
  { File("delhi_raw_1",
      Hourly(<<KV("time", List(<<T0, T1>>)),
               KV("pm25", List(<<Num(U(10)), Num(U(600))>>))>>)),
    File("delhi_raw_1",
      Hourly(<<KV("time", List(<<T0, T1>>)),
               KV("pm2_5", List(<<Num(U(10)), Num(U(600))>>))>>)),
    File("new_delhi_raw_2",
      Hourly(<<KV("time", List(<<T0>>)),
               KV("uvi", List(<<Num(U(5))>>)), KV("pm10", List(<<Num(U(7))>>))>>)),
    File("delhi_raw_1",
      Hourly(<<KV("time", List(<<T0, T0>>)),
               KV("pm10", List(<<Num(U(1)), Num(U(2))>>))>>)),
    File("delhi_raw_1",
      Hourly(<<KV("time", List(<<T0, T030>>)),
               KV("pm10", List(<<Num(U(1)), Num(U(2))>>))>>)),
    File("delhi_raw_1",
      Hourly(<<KV("time", List(<<T030Naive>>)), KV("pm10", List(<<Num(U(1))>>))>>)),
    File("delhi_raw_1",
      Hourly(<<KV("time", List(<<TBad, T0>>)),
               KV("pm10", List(<<Num(U(1)), Num(U(2))>>))>>)),
    File("notes",
      Hourly(<<KV("time", List(<<T0, T1>>)),
               KV("pm10", List(<<Str("n/a"), Str("20")>>)),
               KV("co", List(<<Num(U(1))>>)),
               KV("carbon_monoxide", List(<<Num(U(1)), Num(U(2))>>))>>)),
    File("delhi_raw_1", Hourly(<<KV("time", List(<<T0>>))>>)),
    File("delhi_raw_1", FullHourly(-U(10), U(0))) }
  \cup { File("delhi_raw_1", FullHourly(pm, U(50))) :
           pm \in {T(500), T(501), T(2000), T(3001)} }
  \cup { File("delhi_raw_1", FullHourly(pm, U(0))) : pm \in {U(40), U(100), U(300)} }

M(pairs) == Obj(pairs)

MeasurementFiles ==
  { File("delhi_raw_1",
      Obj(<<KV("results", List(<<
        Obj(<<KV("city", Str("Mumbai")),
              KV("measurements", List(<<
                M(<<KV("parameter", Str("pm25")), KV("value", Num(U(10))),
                    KV("date", Obj(<<KV("utc", T0)>>))>>),
                M(<<KV("parameter", Str("pm25")), KV("value", Num(U(20))),
                    KV("date", Obj(<<KV("utc", T030)>>))>>)>>))>>)>>))>>)),
    File("delhi_raw_1",
      Obj(<<KV("results", List(<<
        Obj(<<KV("location", Str("Delhi")),
              KV("measurements", List(<<
                M(<<KV("parameter", Str("PM2.5")), KV("value", Num(U(30))),
                    KV("lastUpdated", T0)>>),
                M(<<KV("param", Str(" PM10 ")), KV("value", Str("n/a")),
                    KV("lastUpdated", T0)>>),
                M(<<KV("name", Str("O3")), KV("value", Num(U(4))),
                    KV("lastUpdated", TBad)>>),
                M(<<KV("parameter", Str("temp")), KV("value", Num(U(25))),
                    KV("lastUpdated", T1)>>)>>))>>)>>))>>)),
    File("delhi_raw_1", Obj(<<KV("results", List(<<Str("x")>>))>>)),
    File("delhi_raw_1",
      Obj(<<KV("results", List(<<
        Obj(<<KV("measurements", List(<<
                M(<<KV("parameter", Str("pm10")), KV("value", Num(U(5))),
                    KV("date", T0)>>)>>))>>)>>))>>)),
    File("delhi_raw_1",
      Obj(<<KV("results", List(<<
        Obj(<<KV("measurements", List(<<Num(U(5))>>))>>)>>))>>)),
    File("new_delhi_raw_2",
      Obj(<<KV("results", List(<<>>)),
            KV("locations", List(<<
        Obj(<<KV("name", Str("Mumbai")),
              KV("parameters", List(<<
                M(<<KV("parameter", Str("o3")), KV("lastValue", Num(U(3))),
                    KV("lastUpdated", T1)>>)>>))>>)>>))>>)),
    File("new_delhi_raw_2",
      Obj(<<KV("locations", List(<<
        Obj(<<KV("name", Str("Mumbai")), KV("lastUpdated", T030),
              KV("parameters", List(<<
                M(<<KV("parameter", Str("o3")), KV("lastValue", Num(U(3))),
                    KV("lastUpdated", T1)>>),
                M(<<KV("name", Str("uv-index")), KV("value", Num(U(6)))>>)>>)),
              KV("measurements", List(<<
                M(<<KV("parameter", Str("no2")), KV("value", Num(U(8))),
                    KV("date", Obj(<<KV("utc", T1)>>))>>)>>))>>)>>))>>)),
    File("new_delhi_raw_2",
      Obj(<<KV("locations", List(<<
        Obj(<<KV("parameters", List(<<Str("o3")>>))>>)>>))>>)),
    File("notes",
      Obj(<<KV("city", Str("Delhi")),
            KV("data", Obj(<<KV("Measurements", List(<<
                M(<<KV("name", Str("no2")), KV("value", Num(U(4))),
                    KV("lastUpdated", T0)>>),
                M(<<KV("name", Str("so2")), KV("value", Num(U(2))),
                    KV("lastUpdated", T030)>>)>>))>>))>>)),
    File("notes", Obj(<<KV("values", List(<<Num(U(1)), Num(U(2))>>))>>)),
    File("_raw_3", Obj(<<KV("meta", Obj(<<KV("city", Str("Mumbai"))>>)),
                         KV("foo", Num(U(1)))>>)) }

\* files whose city fields disagree with each other and with the file name
CityFiles ==
  { File("_raw_3", Obj(<<KV("city", Str("")), KV("foo", Num(U(1)))>>)),
    File("new_delhi_raw_2",
      Obj(<<KV("city", Str("Delhi")),
            KV("meta", Obj(<<KV("city", Str("Mumbai"))>>)),
            KV("results", List(<<
        Obj(<<KV("city", Str("Mumbai")), KV("location", Str("Notes")),
              KV("measurements", List(<<
                M(<<KV("parameter", Str("pm10")), KV("value", Num(U(7))),
                    KV("lastUpdated", T0)>>)>>))>>)>>))>>)),
    File("new_delhi_raw_2",
      Obj(<<KV("meta", Obj(<<KV("city", Str("Mumbai"))>>)),
            KV("results", List(<<
        Obj(<<KV("city", Str("")), KV("location", Str("Delhi")),
              KV("measurements", List(<<
                M(<<KV("parameter", Str("pm10")), KV("value", Num(U(7))),
                    KV("lastUpdated", T0)>>)>>))>>)>>))>>)),
    File("new_delhi_raw_2",
      Obj(<<KV("results", List(<<
        Obj(<<KV("city", Str("")), KV("location", Str("Mumbai")),
              KV("measurements", List(<<
                M(<<KV("parameter", Str("pm10")), KV("value", Num(U(7))),
                    KV("lastUpdated", T0)>>)>>))>>),
        Obj(<<KV("measurements", List(<<
                M(<<KV("parameter", Str("pm10")), KV("value", Num(U(9))),
                    KV("lastUpdated", T0)>>)>>))>>)>>))>>)),
    File("delhi_raw_1",
      Obj(<<KV("locations", List(<<
        Obj(<<KV("city", Str("Mumbai")), KV("name", Str("Notes")),
              KV("parameters", List(<<
                M(<<KV("parameter", Str("o3")), KV("lastValue", Num(U(3))),
                    KV("lastUpdated", T1)>>)>>))>>)>>))>>)) }

\* files with an empty results list beside another source of measurements,
\* and a file with a reading of a parameter named "City"
ShapeFiles ==
  { File("delhi_raw_1",
      Obj(<<KV("results", List(<<
        Obj(<<KV("city", Str("Mumbai")),
              KV("measurements", List(<<
                M(<<KV("parameter", Str("City")), KV("value", Num(U(1))),
                    KV("lastUpdated", T0)>>),
                M(<<KV("parameter", Str("pm10")), KV("value", Num(U(5))),
                    KV("lastUpdated", T0)>>)>>))>>)>>))>>)),
    File("delhi_raw_1",
      Obj(<<KV("results", List(<<>>)),
            KV("data", Obj(<<KV("measurements", List(<<
                M(<<KV("parameter", Str("pm10")), KV("value", Num(U(9))),
                    KV("lastUpdated", T0)>>)>>))>>))>>)) }

BrokenFiles ==
  { Unparseable("_raw_3"),
    File("delhi_raw_1", List(<<Num(U(1))>>)) }

FilePool == HourlyFiles \cup MeasurementFiles \cup CityFiles \cup ShapeFiles
    \cup BrokenFiles

(***************************************************************************)
(* The state machine: one run of transform_files, of the script, or one    *)
(* direct call of calculate_aqi or flatten_city_json                       *)
(***************************************************************************)
NoCall == [status |-> "none", cols |-> <<>>, rows |-> <<>>]
NoCsv == [written |-> FALSE, header |-> <<>>, rows |-> <<>>]

\* the values calculate_aqi is called with directly: None, strings and
\* numbers around the band limits, in tenths
AqiTenths ==
  {-10, 0} \cup (495..505) \cup (995..1005) \cup (1995..2005) \cup (2995..3005)
AqiInputs ==
  {None, Str("n/a"), Str("20")} \cup {Num(T(k)) : k \in AqiTenths}

\* the city_name a direct call of flatten_city_json is given
CityNames == {None, Str("Pune")}

\* the names of the files in the order Python sorts strings
StemOrder == <<"_raw_3", "delhi_raw_1", "new_delhi_raw_2", "notes">>
StemRank(stem) == CHOOSE i \in 1..Len(StemOrder) : StemOrder[i] = stem

\* RAW_DIR.glob("*_raw_*"): the files whose name holds "_raw_"
RECURSIVE HasRawAt(_, _)
HasRawAt(cs, i) ==
  IF i + 4 > Len(cs) THEN FALSE
  ELSE IF SubSeq(cs, i, i + 4) = <<"_", "r", "a", "w", "_">> THEN TRUE
  ELSE HasRawAt(cs, i + 1)
Glob(dir) == {f \in dir : HasRawAt(Chars(f.stem), 1)}

\* the files of a set in the reverse order of their names
RECURSIVE Sorted_reverse(_)
Sorted_reverse(files) ==
  IF files = {} THEN <<>>
  ELSE LET first == CHOOSE f \in files :
                      \A g \in files : StemRank(f.stem) >= StemRank(g.stem)
       IN  <<first>> \o Sorted_reverse(files \ {first})

\* sorted(...): the files of a set in the order of their names
RECURSIVE Sorted(_)
Sorted(files) ==
  IF files = {} THEN <<>>
  ELSE LET first == CHOOSE f \in files :
                      \A g \in files : StemRank(f.stem) <= StemRank(g.stem)
       IN  <<first>> \o Sorted(files \ {first})

\* a directory holds at most one file of a name
Directories ==
  {d \in {{l[i] : i \in DOMAIN l} :
            l \in UNION {[1..n -> FilePool] : n \in 0..MaxFiles}} :
     \A f \in d : \A g \in d : f.stem = g.stem => f = g}

\* a run of transform_files over a list of files
InitTransform ==
  /\ entry = "transform_files"
  /\ file_paths \in UNION {[1..n -> FilePool] : n \in 0..MaxFiles}
  /\ raw_dir = {}
  /\ pc = "loop"
  /\ arg = None

\* a direct call of calculate_aqi
InitCall ==
  /\ entry = "calculate_aqi"
  /\ file_paths = <<>>
  /\ raw_dir = {}
  /\ pc = "call"
  /\ arg \in AqiInputs

\* a direct call of flatten_city_json(file_paths[1], arg)
InitFlatten ==
  /\ entry = "flatten_city_json"
  /\ file_paths \in [1..1 -> FilePool]
  /\ raw_dir = {}
  /\ pc = "call_flatten"
  /\ arg \in CityNames

\* a run of the script, lines 309-314
InitMain ==
  /\ entry = "main"
  /\ file_paths = <<>>
  /\ raw_dir \in Directories
  /\ pc = "main"
  /\ arg = None

\* load.py is not loaded: its variables keep their defaults
LoadIdle ==
  /\ BATCH_SIZE = 200
  /\ MAX_RETRIES = 2
  /\ total_rows = 0
  /\ records = <<>>
  /\ inserted_rows = 0
  /\ failed_rows = 0
  /\ batch_start = 0
  /\ attempt = 0
  /\ success = FALSE
  /\ calls = <<>>

\* the stages of run_pipeline.main in their order
\* the Telco loader is not running: the defaults of lines 72-76
TelcoIdle ==
  /\ batch_size = 200
  /\ telco_total_rows = 0
  /\ telco_i = 0
  /\ telco_attempt = 0
  /\ attempts = <<>>

Stages == <<"Extract", "Transform", "Load", "Analysis">>
StageSet == {Stages[k] : k \in 1..Len(Stages)}

\* run_pipeline.py is not running
PipeIdle ==
  /\ stage = "Extract"
  /\ runner = [st \in StageSet |-> "none"]
  /\ called = {}
  /\ subprocess_runs = <<>>
  /\ stage_ok = [st \in StageSet |-> "unset"]
  /\ raw_present = FALSE
  /\ csv_exists = FALSE

Init ==
  /\ InitTransform \/ InitCall \/ InitFlatten \/ InitMain
  /\ PipeIdle
  /\ TelcoIdle
  /\ fp = 1
  /\ all_frames = <<>>
  /\ df = NoCall
  /\ out = <<>>
  /\ csv = NoCsv
  /\ ret = "none"
  /\ file_city = None
  /\ LoadIdle

\* lines 42-59: calculate_aqi(arg) returns
CallAqi ==
  /\ pc = "call"
  /\ ret' = calculate_aqi(arg)
  /\ pc' = "returned"
  /\ UNCHANGED <<file_paths, fp, all_frames, df, out, csv, arg, entry, raw_dir, file_city>>
  /\ UNCHANGED <<loadVars, pipeVars, telcoVars>>

\* line 150: the city of the file, left as it was when json.load raised
CityAfter(file, city_name) ==
  IF file.parses THEN InferCity(city_name, file.payload, file.stem) ELSE file_city

\* lines 140-265: flatten_city_json(file_paths[1], arg) returns or raises
CallFlatten ==
  /\ pc = "call_flatten"
  /\ df' = flatten_city_json(file_paths[1], arg)
  /\ file_city' = CityAfter(file_paths[1], arg)
  /\ pc' = "flattened"
  /\ UNCHANGED <<file_paths, fp, all_frames, out, csv, arg, ret, entry, raw_dir>>
  /\ UNCHANGED <<loadVars, pipeVars, telcoVars>>

\* lines 309-314: the script sorts the raw files it finds and hands them to
\* transform_files; with no file it prints and writes nothing
Main ==
  /\ pc = "main"
  /\ IF Glob(raw_dir) = {}
     THEN /\ pc' = "exit"
          /\ UNCHANGED file_paths
     ELSE /\ file_paths' = Sorted(Glob(raw_dir))
          /\ pc' = "loop"
  /\ UNCHANGED <<fp, all_frames, df, out, csv, arg, ret, entry, raw_dir, file_city>>
  /\ UNCHANGED <<loadVars, pipeVars, telcoVars>>

\* lines 271-274: one turn of the loop; an exception of flatten_city_json
\* is not caught and leaves transform_files
Flatten ==
  /\ pc = "loop"
  /\ fp <= Len(file_paths)
  /\ df' = flatten_city_json(file_paths[fp], None)
  /\ file_city' = CityAfter(file_paths[fp], None)
  /\ IF df'.status = "raise"
     THEN /\ pc' = "raised"
          /\ UNCHANGED <<fp, all_frames>>
     ELSE /\ fp' = fp + 1
          /\ all_frames' = IF df'.rows # <<>> THEN Append(all_frames, df'.rows)
                           ELSE all_frames
          /\ pc' = pc
  /\ UNCHANGED <<file_paths, out, csv, arg, ret, entry, raw_dir>>
  /\ UNCHANGED <<loadVars, pipeVars, telcoVars>>

\* lines 276-281: no frame was collected
NoData ==
  /\ pc = "loop"
  /\ fp > Len(file_paths)
  /\ all_frames = <<>>
  /\ out' = <<>>
  /\ csv' = [written |-> TRUE, header |-> EmptyCols, rows |-> <<>>]
  /\ pc' = "done"
  /\ UNCHANGED <<file_paths, fp, all_frames, df, arg, ret, entry, raw_dir, file_city>>
  /\ UNCHANGED <<loadVars, pipeVars, telcoVars>>

\* lines 283-306: concatenate, coerce, drop, derive and save; line 301
\* raises when the time column is not datetime-like
Finish ==
  /\ pc = "loop"
  /\ fp > Len(file_paths)
  /\ all_frames # <<>>
  /\ IF DatetimeLike(Flat(all_frames))
     THEN /\ out' = Table(all_frames)
          /\ csv' = [written |-> TRUE, header |-> OutCols, rows |-> Table(all_frames)]
          /\ pc' = "done"
     ELSE /\ pc' = "raised"
          /\ UNCHANGED <<out, csv>>
  /\ UNCHANGED <<file_paths, fp, all_frames, df, arg, ret, entry, raw_dir, file_city>>
  /\ UNCHANGED <<loadVars, pipeVars, telcoVars>>

Next == Flatten \/ NoData \/ Finish \/ CallAqi \/ CallFlatten \/ Main

Spec == Init /\ [][Next]_vars

(***************************************************************************)
(* The load stage: load_csv_to_supabase(csv_path), load.py lines 79-153    *)
(***************************************************************************)
\* row j of a staged CSV: a row transform_files writes
StagedRow(j) ==
  Derive([c \in {"city", "time"} \cup PollutantSet |->
            IF c = "city" THEN Str("Delhi")
            ELSE IF c = "time" THEN Time(1, j, 0, TRUE)
            ELSE IF c = "pm10" THEN Num(U(j))
            ELSE IF c = "pm2_5" /\ j % 2 = 0 THEN Num(U(40))
            ELSE NaN])

\* the file transform_files has written, with n rows
StagedCsv(n) ==
  [written |-> TRUE,
   header |-> IF n = 0 THEN EmptyCols ELSE OutCols,
   rows |-> [j \in 1..n |-> StagedRow(j)]]

\* a run of load_csv_to_supabase over a staged CSV
InitLoad ==
  /\ entry = "load_csv_to_supabase"
  /\ pc = "load"
  /\ csv \in {StagedCsv(n) : n \in 0..MaxRows}
  /\ BATCH_SIZE \in 1..MaxBatchSize
  /\ MAX_RETRIES \in -1..MaxRetries
  /\ total_rows = 0
  /\ records = <<>>
  /\ inserted_rows = 0
  /\ failed_rows = 0
  /\ batch_start = 0
  /\ attempt = 0
  /\ success = FALSE
  /\ calls = <<>>
  /\ PipeIdle
  /\ TelcoIdle
  /\ file_paths = <<>>
  /\ raw_dir = {}
  /\ arg = None
  /\ fp = 1
  /\ all_frames = <<>>
  /\ df = NoCall
  /\ out = <<>>
  /\ ret = "none"
  /\ file_city = None

transformVars ==
  <<file_paths, fp, all_frames, df, out, csv, arg, ret, entry, raw_dir, file_city,
    BATCH_SIZE, MAX_RETRIES, pipeVars, telcoVars>>

\* the columns of the table that hold Python strings, not numbers
TextCols == {"AQI", "aqi_category", "risk"}

\* one cell of pd.read_csv(csv_path, parse_dates=["time"], ...) of the file
\* to_csv has written: None and NaN are written as the empty field, which
\* is read as NaN
read_csv_cell(col, val) ==
  IF col = "time" THEN val
  ELSE IF col \in TextCols THEN (IF val = "absent" THEN NaN ELSE Str(val))
  ELSE IF val.t \in {"nan", "null"} THEN NaN
  ELSE val

\* Timestamp.isoformat() for the times of the model
isoformat(t) ==
  CASE t = Time(1, 0, 0, TRUE) -> "2024-01-01T00:00:00+00:00"
    [] t = Time(1, 1, 0, TRUE) -> "2024-01-01T01:00:00+00:00"
    [] t = Time(1, 2, 0, TRUE) -> "2024-01-01T02:00:00+00:00"
    [] t = Time(1, 3, 0, TRUE) -> "2024-01-01T03:00:00+00:00"
    [] t = Time(1, 4, 0, TRUE) -> "2024-01-01T04:00:00+00:00"
    [] OTHER -> "2024-01-01T00:30:00+00:00"

\* lines 54-75: one cell of _row_to_record: NaN and NaT become None, a
\* Timestamp its ISO string, anything else stays
RecordCell(col, val) ==
  IF col = "time" THEN (IF val.k = "nat" THEN None ELSE Str(isoformat(val)))
  ELSE IF val.t = "nan" THEN None
  ELSE val

\* lines 88-89: df.rename(columns=rename_map), and the name a renamed
\* column had
rename_map(col) ==
  CASE col = "severity" -> "severity_score"
    [] col = "risk" -> "risk_flag"
    [] OTHER -> col
Renamed(old, new) == rename_map(old) = new

\* lines 92-106
expected_cols ==
  <<"city", "time", "pm10", "pm2_5", "carbon_monoxide", "nitrogen_dioxide",
    "sulphur_dioxide", "ozone", "uv_index", "aqi_category", "severity_score",
    "risk_flag", "hour">>

\* line 108: the expected columns the renamed table has, in their order
KeptCols(header) ==
  LET Present(c) == \E k \in 1..Len(header) : Renamed(header[k], c)
  IN SelectSeq(expected_cols, Present)

\* lines 48-76 and 114-116: the record of one row, column by column
_row_to_record(header, row) ==
  LET kept == KeptCols(header)
      Old(c) == header[CHOOSE k \in 1..Len(header) : Renamed(header[k], c)]
  IN [k \in 1..Len(kept) |->
        [col |-> kept[k],
         val |-> RecordCell(kept[k], read_csv_cell(Old(kept[k]), row[Old(kept[k])]))]]

\* lines 80-116: read the CSV; an empty one ends the call before the loop
ReadCsv ==
  /\ pc = "load"
  /\ IF csv.rows = <<>>
     THEN /\ pc' = "no_rows"
          /\ UNCHANGED <<total_rows, records, inserted_rows, failed_rows>>
     ELSE /\ total_rows' = Len(csv.rows)
          /\ records' = [j \in 1..Len(csv.rows) |->
                           _row_to_record(csv.header, csv.rows[j])]
          /\ inserted_rows' = 0
          /\ failed_rows' = 0
          /\ pc' = "for"
  /\ UNCHANGED <<transformVars, batch_start, attempt, success, calls>>

\* len(records[i : i + BATCH_SIZE])
BatchLen(start) ==
  IF start + BATCH_SIZE <= total_rows THEN BATCH_SIZE ELSE total_rows - start

\* lines 119-122: the next batch, or the end of the loop
ForBatch ==
  /\ pc = "for"
  /\ IF batch_start < total_rows
     THEN /\ attempt' = 0
          /\ success' = FALSE
          /\ pc' = "while"
     ELSE /\ pc' = "summary"
          /\ UNCHANGED <<attempt, success>>
  /\ UNCHANGED <<transformVars, total_rows, records, inserted_rows, failed_rows,
                 batch_start, calls>>

\* the loop continues although the batch has succeeded
LoopCondition_ignoring_success(a, ok) == a <= MAX_RETRIES

\* the loop condition with < written for <=
LoopCondition_strict(a, ok) == a < MAX_RETRIES /\ ~ok

\* line 123: while attempt <= MAX_RETRIES and not success
LoopCondition(a, ok) == a <= MAX_RETRIES /\ ~ok

\* lines 124-142: one attempt to insert the batch; it succeeds or raises,
\* and a failure of the last attempt counts the batch as failed and breaks
Insert ==
  /\ pc = "while"
  /\ LoopCondition(attempt, success)
  /\ attempt' = attempt + 1
  /\ \E ok \in BOOLEAN :
       /\ calls' = Append(calls, [start |-> batch_start,
                                  len |-> BatchLen(batch_start), ok |-> ok])
       /\ IF ok
          THEN /\ success' = TRUE
               /\ inserted_rows' = inserted_rows + BatchLen(batch_start)
               /\ pc' = "while"
               /\ UNCHANGED <<failed_rows, batch_start>>
          ELSE IF attempt' > MAX_RETRIES
          THEN /\ failed_rows' = failed_rows + BatchLen(batch_start)
               /\ batch_start' = batch_start + BATCH_SIZE
               /\ pc' = "for"
               /\ UNCHANGED <<success, inserted_rows>>
          ELSE /\ pc' = "while"
               /\ UNCHANGED <<success, inserted_rows, failed_rows, batch_start>>
  /\ UNCHANGED <<transformVars, total_rows, records>>

\* line 123: the loop condition is false, the for loop steps by BATCH_SIZE
EndWhile ==
  /\ pc = "while"
  /\ ~LoopCondition(attempt, success)
  /\ batch_start' = batch_start + BATCH_SIZE
  /\ pc' = "for"
  /\ UNCHANGED <<transformVars, total_rows, records, inserted_rows, failed_rows,
                 attempt, success, calls>>

\* lines 146-152: the summary is printed and the call returns
Summary ==
  /\ pc = "summary"
  /\ pc' = "loaded"
  /\ UNCHANGED <<transformVars, total_rows, records, inserted_rows, failed_rows,
                 batch_start, attempt, success, calls>>

NextLoad == ReadCsv \/ ForBatch \/ Insert \/ EndWhile \/ Summary

\* the loader runs on: no step of it waits for anything but itself
SpecLoad == InitLoad /\ [][NextLoad]_vars /\ WF_vars(NextLoad)

(***************************************************************************)
(* The driver: run_pipeline.main(), run_pipeline.py lines 175-217          *)
(* The stages' modules, their functions and their scripts are the          *)
(* environment: how an import, a call or a subprocess ends is drawn freely. *)
(***************************************************************************)
\* transform.py is not running
TransformIdle ==
  /\ file_paths = <<>>
  /\ raw_dir = {}
  /\ arg = None
  /\ fp = 1
  /\ all_frames = <<>>
  /\ df = NoCall
  /\ out = <<>>
  /\ csv = NoCsv
  /\ ret = "none"
  /\ file_city = None

\* a run of the pipeline; raw files and a transformed CSV of an earlier run
\* may be there
InitPipeline ==
  /\ entry = "run_pipeline"
  /\ pc = "stage"
  /\ stage = "Extract"
  /\ runner = [st \in StageSet |-> "none"]
  /\ called = {}
  /\ subprocess_runs = <<>>
  /\ stage_ok = [st \in StageSet |-> "unset"]
  /\ raw_present \in BOOLEAN
  /\ csv_exists \in BOOLEAN
  /\ TransformIdle
  /\ LoadIdle
  /\ TelcoIdle

\* lines 51-152: the ways a stage's import runner ends: the import raises,
\* the function is missing, the function is called and raises, is called
\* and returns but the runner's check fails (lines 64-70, line 96), or is
\* called and the runner returns True
RunnerEnds(st) ==
  IF st \in {"Extract", "Transform"}
  THEN {"import_failed", "missing", "raised", "not_ok", "ok"}
  ELSE {"import_failed", "missing", "raised", "ok"}

\* the import runner called the stage's function
Called(how) == how \in {"raised", "not_ok", "ok"}

\* the import runner of the stage at hand runs: lines 160 and 51-152
ImportRun ==
  /\ pc = "stage"
  /\ \E how \in RunnerEnds(stage) :
       /\ runner' = [runner EXCEPT ![stage] = how]
       /\ called' = IF Called(how) THEN called \cup {stage} ELSE called
       /\ IF stage = "Extract" /\ Called(how)
          THEN raw_present' \in {raw_present, TRUE}
          ELSE UNCHANGED raw_present
       /\ IF stage = "Transform" /\ how = "ok" THEN csv_exists' = TRUE
          ELSE IF stage = "Transform" /\ how = "not_ok"
          THEN csv_exists = FALSE /\ csv_exists' = FALSE
          ELSE UNCHANGED csv_exists
  /\ pc' = "ran"
  /\ UNCHANGED <<file_paths, fp, all_frames, df, out, csv, arg, ret, entry, raw_dir,
                 file_city, loadVars, telcoVars, stage, subprocess_runs, stage_ok>>

\* the script is run whatever the import runner returned
FallsBack_always(how) == TRUE

\* lines 160-165: "if ok: return True", else the script is run
FallsBack(how) == how # "ok"

\* lines 161-163: the import runner returned True
Completed ==
  /\ pc = "ran"
  /\ ~FallsBack(runner[stage])
  /\ stage_ok' = [stage_ok EXCEPT ![stage] = "ok"]
  /\ pc' = "next"
  /\ UNCHANGED <<file_paths, fp, all_frames, df, out, csv, arg, ret, entry, raw_dir,
                 file_city, loadVars, telcoVars, stage, runner, called, subprocess_runs,
                 raw_present, csv_exists>>

\* lines 165-172: the stage's script is run as a subprocess
Fallback ==
  /\ pc = "ran"
  /\ FallsBack(runner[stage])
  /\ \E rc \in {0, 1} :
       /\ subprocess_runs' = Append(subprocess_runs, [stage |-> stage, rc |-> rc])
       /\ stage_ok' = [stage_ok EXCEPT ![stage] = IF rc = 0 THEN "ok" ELSE "failed"]
       /\ IF stage = "Extract" THEN raw_present' \in {raw_present, TRUE}
          ELSE UNCHANGED raw_present
       /\ IF stage = "Transform" /\ rc = 0 THEN csv_exists' \in {csv_exists, TRUE}
          ELSE UNCHANGED csv_exists
  /\ pc' = "next"
  /\ UNCHANGED <<file_paths, fp, all_frames, df, out, csv, arg, ret, entry, raw_dir,
                 file_city, loadVars, telcoVars, stage, runner, called>>

\* lines 186-211: main goes to the next stage; Transform is skipped without
\* raw files, Load without the transformed CSV
MainNext ==
  /\ pc = "next"
  /\ CASE stage = "Extract" ->
            /\ stage' = "Transform"
            /\ IF raw_present
               THEN pc' = "stage" /\ UNCHANGED stage_ok
               ELSE /\ pc' = "next"
                    /\ stage_ok' = [stage_ok EXCEPT !["Transform"] = "failed"]
       [] stage = "Transform" ->
            /\ stage' = "Load"
            /\ IF csv_exists
               THEN pc' = "stage" /\ UNCHANGED stage_ok
               ELSE /\ pc' = "next"
                    /\ stage_ok' = [stage_ok EXCEPT !["Load"] = "failed"]
       [] stage = "Load" ->
            /\ stage' = "Analysis"
            /\ pc' = "stage"
            /\ UNCHANGED stage_ok
       [] OTHER ->
            /\ pc' = "finished"
            /\ UNCHANGED <<stage, stage_ok>>
  /\ UNCHANGED <<file_paths, fp, all_frames, df, out, csv, arg, ret, entry, raw_dir,
                 file_city, loadVars, telcoVars, runner, called, subprocess_runs,
                 raw_present, csv_exists>>

NextPipeline == ImportRun \/ Completed \/ Fallback \/ MainNext

SpecPipeline == InitPipeline /\ [][NextPipeline]_vars

(***************************************************************************)
(* The Telco loader: load_to_supabase, scripts/load.py lines 72-178        *)
(* The client is the environment: an insert succeeds, fails with a message *)
(* that contains "EOF occurred in violation of protocol", or fails with    *)
(* another message.                                                        *)
(***************************************************************************)
\* line 154
max_retries == 3

\* how an insert call ends: lines 158 and 162-164
InsertEnds == {"ok", "eof", "other"}

\* a call of load_to_supabase with a staged CSV of some rows and a batch
\* size; what it finds is drawn by TelcoStart
InitTelco ==
  /\ entry = "load_to_supabase"
  /\ pc = "telco_load"
  /\ batch_size \in -1..MaxBatchSize
  /\ telco_total_rows \in 0..MaxRows
  /\ telco_i = 0
  /\ telco_attempt = 0
  /\ attempts = <<>>
  /\ TransformIdle
  /\ LoadIdle
  /\ PipeIdle

telcoOthers ==
  <<file_paths, fp, all_frames, df, out, csv, arg, ret, entry, raw_dir, file_city,
    loadVars, pipeVars>>

\* lines 78-143: the file is not there or columns are missing (return), the
\* client or the read raises, or range() refuses a step of 0 (the except of
\* line 175); else the loop of line 148 starts
TelcoStart ==
  /\ pc = "telco_load"
  /\ \E found \in {"no_file", "missing_columns", "raised", "read"} :
       pc' = IF found \in {"no_file", "missing_columns"} THEN "telco_returned"
             ELSE IF found = "raised" \/ batch_size = 0 THEN "telco_error"
             ELSE "telco_for"
  /\ telco_i' = 0
  /\ UNCHANGED <<batch_size, telco_total_rows, telco_attempt, attempts, telcoOthers>>

\* line 148: range(0, total_rows, batch_size) gives the next batch, or the
\* loop ends and line 173 prints the finished message
TelcoFor ==
  /\ pc = "telco_for"
  /\ IF batch_size > 0 /\ telco_i < telco_total_rows
     THEN pc' = "telco_try" /\ telco_attempt' = 0
     ELSE pc' = "telco_finished" /\ UNCHANGED telco_attempt
  /\ UNCHANGED <<batch_size, telco_total_rows, telco_i, attempts, telcoOthers>>

\* every failure is tried again while attempts are left
Retry_any_error(how, n) == how # "ok" /\ n < max_retries - 1

\* line 164: the condition under which the except block continues the loop
Retry(how, n) == how = "eof" /\ n < max_retries - 1

\* lines 156-171: one pass of the retry loop: the insert, then break,
\* continue, or the end of range(max_retries)
TelcoInsert ==
  /\ pc = "telco_try"
  /\ \E how \in InsertEnds :
       /\ attempts' = Append(attempts,
                             [i |-> telco_i, attempt |-> telco_attempt, how |-> how])
       /\ IF Retry(how, telco_attempt) /\ telco_attempt + 1 < max_retries
          THEN /\ telco_attempt' = telco_attempt + 1
               /\ pc' = "telco_try"
               /\ UNCHANGED telco_i
          ELSE /\ telco_i' = telco_i + batch_size
               /\ pc' = "telco_for"
               /\ UNCHANGED telco_attempt
  /\ UNCHANGED <<batch_size, telco_total_rows, telcoOthers>>

NextTelco == TelcoStart \/ TelcoFor \/ TelcoInsert

\* the loader is not stopped from outside and time.sleep(2) returns
SpecTelco == InitTelco /\ [][NextTelco]_vars /\ WF_vars(NextTelco)

(***************************************************************************)
(* Properties                                                              *)
(***************************************************************************)
\* the file the last call of flatten_city_json was given
LastFile ==
  IF entry = "flatten_city_json" THEN file_paths[1]
  ELSE IF df.status = "raise" THEN file_paths[fp] ELSE file_paths[fp - 1]

\* the payload of the scenario: hourly.time of two hours, hourly.pm25 = [10, 600]
ScenarioPayload ==
  Hourly(<<KV("time", List(<<T0, T1>>)),
           KV("pm25", List(<<Num(U(10)), Num(U(600))>>))>>)

\* C1: transform_files on the single file holding the scenario payload
\* returns exactly two rows, and the second row has pm2_5 = 600,
\* severity = 3000, risk "High Risk" and AQI "Hazardous".
C1_ScenarioRows ==
  (pc = "done" /\ Len(file_paths) = 1 /\ file_paths[1].payload = ScenarioPayload) =>
    /\ Len(out) = 2
    /\ out[2].pm2_5 = Num(U(600))
    /\ out[2].severity = Num(U(3000))
    /\ out[2].risk = "High Risk"
    /\ out[2].AQI = "Hazardous"

\* the keys of hourly under which column c may be supplied: its canonical
\* name and its aliases in POLLUTANT_MAPPING
NamesOf(c) ==
  {c} \cup {POLLUTANT_MAPPING[j][1] :
              j \in {k \in 1..Len(POLLUTANT_MAPPING) : POLLUTANT_MAPPING[k][2] = c}}

\* C2: in the frame flatten_city_json returns for an hourly payload, the row
\* of index i carries in column c element i of a list that hourly holds, longer
\* than i, under c's canonical name or one of its aliases; c is absent only
\* when hourly holds no such list.
C2_AliasOrCanonical ==
  (df.status = "ok" /\ IsHourly(LastFile.payload)) =>
    LET hourly == Get(LastFile.payload, "hourly")
        times == Items(Get(hourly, "time"))
    IN \A i \in 1..Len(times) : \A c \in PollutantSet :
         LET have == {k \in NamesOf(c) :
                        /\ HasKey(hourly, k) /\ IsList(Get(hourly, k))
                        /\ i <= Len(Get(hourly, k).kids)}
         IN IF have # {}
            THEN \E k \in have : df.rows[i][c] = Items(Get(hourly, k))[i]
            ELSE df.rows[i][c] = None

\* the value of a cell in the weighted sum, an absent cell counting 0
OrZero(v) == IF v.t = "num" THEN v.n ELSE 0
WeightedSum(row) ==
  5 * OrZero(row.pm2_5) + 3 * OrZero(row.pm10) + 4 * OrZero(row.nitrogen_dioxide)
  + 4 * OrZero(row.sulphur_dioxide) + 2 * OrZero(row.carbon_monoxide)
  + 3 * OrZero(row.ozone)

\* C3: in every row of the table transform_files returns, severity is
\* 5*pm2_5 + 3*pm10 + 4*nitrogen_dioxide + 4*sulphur_dioxide
\* + 2*carbon_monoxide + 3*ozone with every absent pollutant counted as 0.
C3_SeverityAbsentAsZero ==
  pc = "done" => \A i \in 1..Len(out) : out[i].severity = Num(WeightedSum(out[i]))

\* C4: in every row of the table transform_files returns, severity is a
\* number (not absent, not NaN) and is at least 0.
C4_SeverityNumberNonNegative ==
  pc = "done" =>
    \A i \in 1..Len(out) : out[i].severity.t = "num" /\ out[i].severity.n >= 0

\* the band of a pm2_5 reading of n (fixed point), upper limits inclusive
C5_Band(n) ==
  IF n <= U(50) THEN "Good"
  ELSE IF U(50) < n /\ n <= U(100) THEN "Moderate"
  ELSE IF U(100) < n /\ n <= U(200) THEN "Unhealthy"
  ELSE IF U(200) < n /\ n <= U(300) THEN "Very Unhealthy"
  ELSE "Hazardous"

\* the category the claim gives a value: absent for None and for a string
\* that is no number
C5_Category(v) ==
  CASE v.t = "num" -> C5_Band(v.n)
    [] v.t = "str" /\ IsNumericStr(v.s) -> C5_Band(NumOfStr(v.s))
    [] OTHER -> "absent"

\* C5: calculate_aqi returns absent for an absent or non-numeric pm2_5 and
\* otherwise the band with inclusive upper limits (50.0 Good, 50.1 Moderate,
\* 200.0 Unhealthy, 300.1 Hazardous); in every row of the table
\* transform_files returns, AQI is that band of the row's pm2_5 and is absent
\* exactly when pm2_5 is absent.
C5_AqiBands ==
  /\ pc = "returned" =>
       /\ ret = C5_Category(arg)
       /\ arg = Num(T(500)) => ret = "Good"
       /\ arg = Num(T(501)) => ret = "Moderate"
       /\ arg = Num(T(2000)) => ret = "Unhealthy"
       /\ arg = Num(T(3001)) => ret = "Hazardous"
  /\ pc = "done" =>
       \A i \in 1..Len(out) :
         /\ out[i].AQI = C5_Category(out[i].pm2_5)
         /\ out[i].AQI = "absent" <=> out[i].pm2_5.t = "nan"

\* C5 witness: a finished run holds a row with pm2_5 = 50.0 rated Good and a
\* row without pm2_5 and without AQI
C5_Witness ==
  /\ pc = "done"
  /\ \E i \in 1..Len(out) : out[i].pm2_5 = Num(T(500)) /\ out[i].AQI = "Good"
  /\ \E i \in 1..Len(out) : out[i].pm2_5.t = "nan" /\ out[i].AQI = "absent"

\* severity > limit, false when severity is NaN
Above(severity, limit) == severity.t = "num" /\ severity.n > U(limit)
AtMost(severity, limit) == severity.t = "num" /\ severity.n <= U(limit)

\* C6: in every row of the table transform_files returns, risk is one of the
\* three risk levels, High Risk exactly when severity > 400, Moderate Risk
\* exactly when 200 < severity <= 400, Low Risk exactly when severity <= 200.
C6_RiskBySeverity ==
  pc = "done" =>
    \A i \in 1..Len(out) :
      /\ out[i].risk \in {"High Risk", "Moderate Risk", "Low Risk"}
      /\ out[i].risk = "High Risk" <=> Above(out[i].severity, 400)
      /\ out[i].risk = "Moderate Risk" <=>
           (Above(out[i].severity, 200) /\ AtMost(out[i].severity, 400))
      /\ out[i].risk = "Low Risk" <=> AtMost(out[i].severity, 200)

\* C7: flatten_city_json never raises, whatever the file holds, and when it
\* yields no row it returns an empty table with the columns city, time and
\* the 7 pollutant columns.
C7_FlattenNeverRaises ==
  /\ df.status # "raise"
  /\ (df.status = "ok" /\ df.rows = <<>>) => df.cols = FrameCols

\* C8: a file whose body cannot be parsed does not stop transform_files: the
\* run does not end at that file.
C8_UnparseableFileSkipped ==
  \A i \in 1..Len(file_paths) :
    ~file_paths[i].parses => ~(pc = "raised" /\ fp = i)

\* two rows of the same hour (the hour their times floor to)
SameHour(a, b) ==
  /\ a.time.k = "t" /\ b.time.k = "t"
  /\ a.time.d = b.time.d /\ a.time.h = b.time.h

\* C9: in the table transform_files returns no two rows have the same city
\* and the same hour.
C9_OneRowPerCityHour ==
  pc = "done" =>
    \A i, j \in 1..Len(out) :
      i # j => ~(out[i].city = out[j].city /\ SameHour(out[i], out[j]))

\* C10: every row flatten_city_json returns has a time at the top of its
\* hour that is a UTC timestamp.
C10_TimeFlooredUtc ==
  df.status = "ok" =>
    \A i \in 1..Len(df.rows) :
      df.rows[i].time.k = "t" => (df.rows[i].time.m = 0 /\ df.rows[i].time.utc)

\* the city_name the last call of flatten_city_json was given
LastCityName == IF entry = "flatten_city_json" THEN arg ELSE None

\* the last call of flatten_city_json returned a table for a payload read
\* through the measurement path (v2, v3 or unknown shape)
MeasurementTable ==
  /\ df.status = "ok"
  /\ LastFile.parses
  /\ IsDict(LastFile.payload)
  /\ ~IsHourly(LastFile.payload)

\* the numeric values of the tuples of ms that belong to row r, column c
Contributing(ms, r, c) ==
  LET Belongs(m) ==
        /\ m.city = r.city
        /\ to_datetime_utc(m.time).k = "t"
        /\ floor_H(to_datetime_utc(m.time)) = r.time
        /\ parameter_norm(m.parameter) = Chars(c)
        /\ ToNumeric(m.value).t = "num"
      own == SelectSeq(ms, Belongs)
  IN [j \in 1..Len(own) |-> ToNumeric(own[j].value).n]

\* C11: in the table of a measurement-list file, the cell of column c in
\* the row of (city, hour) is the mean of the numeric values of the tuples
\* of that city whose time floors to that hour and whose parameter
\* normalizes to c (NaN when there is none); a tuple with an unparseable
\* time or value contributes nothing.
C11_MeanPerCityHourColumn ==
  MeasurementTable =>
    LET ms == Measurements(LastFile.payload, file_city).ms IN
    \A i \in 1..Len(df.rows) : \A c \in PollutantSet :
      LET vals == Contributing(ms, df.rows[i], c) IN
      IF vals = <<>> THEN df.rows[i][c] = NaN
      ELSE /\ df.rows[i][c].t = "num"
           /\ df.rows[i][c].n * Len(vals) = Sum(vals)

\* two pm25 readings of 10 and 20 in one city and hour gave pm2_5 = 15
C11_Witness ==
  /\ MeasurementTable
  /\ \E i \in 1..Len(df.rows) :
       /\ Contributing(Measurements(LastFile.payload, file_city).ms,
                       df.rows[i], "pm2_5") = <<U(10), U(20)>>
       /\ df.rows[i]["pm2_5"] = Num(U(15))

\* v[k] of an object, v[1] of a non-empty list, None otherwise
Field(v, k) == IF IsDict(v) THEN Get(v, k) ELSE None
First(v) == IF IsList(v) /\ Len(v.kids) > 0 THEN Items(v)[1] ELSE None

\* the city a file name stands for: the part before "_raw_", spaced and
\* title-cased
NameCity(stem) ==
  CASE stem = "delhi_raw_1" -> Str("Delhi")
    [] stem = "new_delhi_raw_2" -> Str("New Delhi")
    [] stem = "notes" -> Str("Notes")
    [] stem = "_raw_3" -> None

\* the places a city is looked for, in their order
CityCandidates(city_name, payload, stem) ==
  << city_name,
     Field(payload, "city"),
     Field(Field(payload, "meta"), "city"),
     Field(First(Field(payload, "results")), "city"),
     Field(First(Field(payload, "results")), "location"),
     Field(First(Field(payload, "locations")), "city"),
     Field(First(Field(payload, "locations")), "name"),
     NameCity(stem),
     Str("Unknown") >>

\* the first present value of a sequence
RECURSIVE FirstPresent(_)
FirstPresent(vs) ==
  IF vs = <<>> THEN None
  ELSE IF Truthy(Head(vs)) THEN Head(vs)
  ELSE FirstPresent(Tail(vs))

\* flatten_city_json has read the file it was last given
FileRead == df.status # "none" /\ LastFile.parses

\* C12: the file-level city of flatten_city_json is the first present value
\* among city_name, payload city, meta.city, the first results element's
\* city then location, the first locations element's city then name, the
\* city of the file name, and "Unknown"; it is never empty.
C12_CityPrecedence ==
  FileRead =>
    /\ file_city = FirstPresent(CityCandidates(LastCityName, LastFile.payload,
                                               LastFile.stem))
    /\ Truthy(file_city)

\* a file named new_delhi_raw_2 with city "Delhi", meta.city "Mumbai" and a
\* first result of city "Mumbai" was read without city_name: the city is
\* "Delhi"
C12_Witness ==
  /\ FileRead
  /\ LastCityName = None
  /\ LastFile.stem = "new_delhi_raw_2"
  /\ Field(LastFile.payload, "city") = Str("Delhi")
  /\ Field(Field(LastFile.payload, "meta"), "city") = Str("Mumbai")
  /\ Field(First(Field(LastFile.payload, "results")), "city") = Str("Mumbai")
  /\ file_city = Str("Delhi")

\* C13: when flatten_city_json is called with an explicit city_name, every
\* row it returns has that city, whatever city, location or name fields the
\* location entries carry.
C13_OverrideOnEveryRow ==
  (pc = "flattened" /\ Truthy(arg) /\ df.status = "ok") =>
    \A i \in 1..Len(df.rows) : df.rows[i].city = arg

\* v is a non-empty sequence of objects
ObjectList(v) ==
  /\ IsList(v) /\ Len(v.kids) > 0
  /\ \A i \in 1..Len(v.kids) : IsDict(Items(v)[i])

\* the measurement tuples of a payload read by the first rule that matches:
\* results a non-empty sequence of objects, then locations a non-empty
\* sequence of objects, then the recursive search
TuplesByFirstMatch(payload, city_of_file) ==
  IF ObjectList(Field(payload, "results")) THEN
    LET locs == Items(Get(payload, "results")) IN
    Chain([i \in 1..Len(locs) |-> V2Loc(locs[i], city_of_file)])
  ELSE IF ObjectList(Field(payload, "locations")) THEN
    LET locs == Items(Get(payload, "locations")) IN
    Chain([i \in 1..Len(locs) |-> V3Loc(locs[i], city_of_file)])
  ELSE
    LET found == _walk_for_measurements(payload) IN
    Chain([i \in 1..Len(found) |-> WalkMeasurement(found[i], city_of_file)])

\* C14: the table flatten_city_json returns for a payload without hourly
\* arrays is the table of the first shape that matches: v2 when results is
\* a non-empty sequence of objects, else v3 when locations is one, else the
\* recursive search; so an empty results list leaves the payload to the
\* locations or to the search.
C14_ShapeByFirstMatch ==
  MeasurementTable =>
    df = PivotFrame(TuplesByFirstMatch(LastFile.payload, file_city))

\* lower-case, strip, replace "." and "-" by "_", look up in the alias table
NormalizedOnce(parameter) ==
  MappingGet(Replace(Replace(Strip(Lower(AsStr(parameter))), ".", "_"), "-", "_"))

\* C15: on the measurement path every parameter key is normalized to what
\* lower-casing, stripping, replacing "." and "-" by "_" and one look-up
\* in the alias table give, and once the tuples are collected a key that
\* stays unrecognized raises no error: the table is returned with the
\* canonical columns only.
C15_NormalizationNeverFails ==
  (FileRead /\ IsDict(LastFile.payload) /\ ~IsHourly(LastFile.payload)
     /\ Measurements(LastFile.payload, file_city).ok) =>
    LET ms == Measurements(LastFile.payload, file_city).ms IN
    /\ \A i \in 1..Len(ms) :
         parameter_norm(ms[i].parameter) = NormalizedOnce(ms[i].parameter)
    /\ df.status = "ok"
    /\ df.cols = FrameCols

\* the rows of the per-file tables of a file list, file after file
RECURSIVE PerFileRows(_)
PerFileRows(files) ==
  IF files = <<>> THEN <<>>
  ELSE flatten_city_json(Head(files), None).rows \o PerFileRows(Tail(files))

\* at least one of the 7 pollutant cells of the row is a number
SomeNumeric(row) == \E c \in PollutantSet : ToNumeric(row[c]).t = "num"

\* the columns a per-file table has, of a row of the output
FrameRow(row) == [c \in {"city", "time"} \cup PollutantSet |-> row[c]]

\* C16: the table transform_files returns holds exactly the rows of the
\* per-file tables that have a number in at least one pollutant column,
\* in the order of the file list and of each file's rows, their
\* non-numeric pollutant cells made absent.
C16_RowsKeptInOrder ==
  pc = "done" =>
    LET kept == SelectSeq(PerFileRows(file_paths), SomeNumeric) IN
    /\ Len(out) = Len(kept)
    /\ \A i \in 1..Len(kept) : FrameRow(out[i]) = CoerceRow(kept[i])

\* two files both gave rows to the table and a row without any number
\* was removed
C16_Witness ==
  /\ pc = "done"
  /\ Len(file_paths) = 2
  /\ \A k \in 1..2 : \E i \in 1..Len(flatten_city_json(file_paths[k], None).rows) :
       SomeNumeric(flatten_city_json(file_paths[k], None).rows[i])
  /\ Len(out) < Len(PerFileRows(file_paths))
  /\ Len(out) >= 2

\* C17: a finished run of the transform stage has written OUTPUT_FILE
\* with the header city, time, the 7 pollutants, AQI, severity, risk,
\* hour, also when there was no input file or no row.
C17_HeaderAlways ==
  pc \in {"done", "exit"} =>
    /\ csv.written
    /\ csv.header = <<"city", "time", "pm10", "pm2_5", "carbon_monoxide",
                      "nitrogen_dioxide", "sulphur_dioxide", "ozone",
                      "uv_index", "AQI", "severity", "risk", "hour">>

\* the rows the table must hold when the files are taken in the order
\* files: the per-file rows with a number, their other pollutant cells absent
RowsInOrder(files) ==
  LET kept == SelectSeq(PerFileRows(files), SomeNumeric)
  IN [i \in 1..Len(kept) |-> CoerceRow(kept[i])]

\* file name a sorts before file name b
NameBefore(a, b) ==
  \/ a = "_raw_3" /\ b \in {"delhi_raw_1", "new_delhi_raw_2", "notes"}
  \/ a = "delhi_raw_1" /\ b \in {"new_delhi_raw_2", "notes"}
  \/ a = "new_delhi_raw_2" /\ b = "notes"

\* the list holds no file name twice
DistinctNames(files) ==
  \A i, j \in 1..Len(files) : files[i].stem = files[j].stem => i = j

\* the list a set of files makes when taken in the order of the names
InNameOrder(files) ==
  CHOOSE l \in [1..Len(files) -> {files[i] : i \in 1..Len(files)}] :
    \A i, j \in 1..Len(files) : i < j => NameBefore(l[i].stem, l[j].stem)

\* C18 as stated: transform_files itself takes the files in the order of
\* their names, so the table of any ordering of a set of files is the table
\* of the sorted list.
C18_SortedInsideTransform ==
  (pc = "done" /\ entry = "transform_files" /\ DistinctNames(file_paths)) =>
    [i \in 1..Len(out) |-> FrameRow(out[i])] = RowsInOrder(InNameOrder(file_paths))

\* C18, amended: the script hands transform_files the raw files of RAW_DIR
\* sorted by name, and transform_files takes the list in the order given;
\* the table of a run of the script is that of the directory's *_raw_*
\* files in the order of their names, whatever order the directory lists
\* them in.
C18_ScriptSortsBeforeTransform ==
  (entry = "main" /\ pc \in {"loop", "done", "raised"}) =>
    /\ {file_paths[i] : i \in 1..Len(file_paths)} =
         {f \in raw_dir : f.stem \in {"_raw_3", "delhi_raw_1", "new_delhi_raw_2"}}
    /\ \A i, j \in 1..Len(file_paths) :
         i < j => NameBefore(file_paths[i].stem, file_paths[j].stem)
    /\ pc = "done" =>
         [i \in 1..Len(out) |-> FrameRow(out[i])] = RowsInOrder(file_paths)

\* the script ran over a directory of two raw files and both gave rows
C18_Witness ==
  /\ entry = "main"
  /\ pc = "done"
  /\ Cardinality(raw_dir) = 2
  /\ Len(file_paths) = 2
  /\ \A k \in 1..2 : \E i \in 1..Len(flatten_city_json(file_paths[k], None).rows) :
       SomeNumeric(flatten_city_json(file_paths[k], None).rows[i])
  /\ Len(out) >= 2

\* C19: on a payload with hourly arrays, an entry of hourly.time that is
\* not a timestamp leaves out its own row only: flatten_city_json returns
\* the rows of the other entries, each with its parsed time.
C19_BadTimeDropsOwnRow ==
  (FileRead /\ IsDict(LastFile.payload) /\ IsHourly(LastFile.payload)) =>
    LET times == Items(Get(Get(LastFile.payload, "hourly"), "time"))
        IsTimestamp(t) == t.t = "str" /\ ParsesAsTime(t.s)
        good == SelectSeq(times, IsTimestamp)
    IN /\ df.status = "ok"
       /\ Len(df.rows) = Len(good)
       /\ \A i \in 1..Len(good) : df.rows[i].time = to_datetime(good[i]).v

\* the insert calls made for the batch that starts at b
CallsOf(b) == {k \in 1..Len(calls) : calls[k].start = b}

\* the rows of the batches from b on for which no insert call succeeded
RECURSIVE RowsNeverInserted(_)
RowsNeverInserted(b) ==
  IF b >= total_rows THEN 0
  ELSE (IF \E k \in CallsOf(b) : calls[k].ok THEN 0 ELSE BatchLen(b))
       + RowsNeverInserted(b + BATCH_SIZE)

\* batches are sent whole and in order, one batch is sent at most
\* 1 + MAX_RETRIES times and not again after it succeeded, and at the
\* summary every batch has been sent and the rows of those that never
\* succeeded are the failed rows
LoaderSafety ==
  /\ \A k \in 1..Len(calls) :
       /\ calls[k].start < total_rows
       /\ calls[k].start % BATCH_SIZE = 0
       /\ calls[k].len = BatchLen(calls[k].start)
       /\ Cardinality(CallsOf(calls[k].start)) <= 1 + MAX_RETRIES
       /\ k > 1 => calls[k].start \in
                     {calls[k - 1].start, calls[k - 1].start + BATCH_SIZE}
       /\ (k > 1 /\ calls[k - 1].ok) => calls[k].start > calls[k - 1].start
  /\ pc \in {"summary", "loaded"} =>
       /\ \A b \in 0..(total_rows - 1) : b % BATCH_SIZE = 0 => CallsOf(b) # {}
       /\ failed_rows = RowsNeverInserted(0)

\* C20 as stated: with MAX_RETRIES >= 0 the batches are sent in order, each
\* at most 1 + MAX_RETRIES times and not again after a success, a batch
\* that failed every time is counted in failed_rows and the next batch
\* follows, and every run of the loader reaches its summary.
C20_SummaryAlways ==
  /\ [](MAX_RETRIES >= 0 => LoaderSafety)
  /\ (pc = "load" /\ MAX_RETRIES >= 0) ~> (pc = "summary")

\* C20, amended: the same, except that the summary is reached by every run
\* over a CSV with at least one row; an empty CSV ends the call before the
\* loop, without a summary.
C20_SummaryWhenRows ==
  /\ [](MAX_RETRIES >= 0 => LoaderSafety)
  /\ (pc = "load" /\ MAX_RETRIES >= 0 /\ csv.rows # <<>>) ~> (pc = "summary")
  /\ [](pc = "no_rows" => csv.rows = <<>> /\ calls = <<>>)

\* the summary was reached after a first batch that failed on each of its
\* 1 + MAX_RETRIES attempts and a second batch that succeeded on a retry
C20_Witness ==
  /\ pc = "summary"
  /\ MAX_RETRIES >= 1
  /\ Cardinality(CallsOf(0)) = 1 + MAX_RETRIES
  /\ \A k \in CallsOf(0) : ~calls[k].ok
  /\ failed_rows = BatchLen(0)
  /\ \E k \in CallsOf(BATCH_SIZE) : calls[k].ok /\ k - 1 \in CallsOf(BATCH_SIZE)

\* the positions in records of the rows some insert call has sent
Sent ==
  {j \in 1..Len(records) :
     \E k \in 1..Len(calls) : calls[k].start < j /\ j <= calls[k].start + calls[k].len}

\* the column names of a record, in their order
ColsOf(rec) == [k \in 1..Len(rec) |-> rec[k].col]

\* C21: every record sent to the store for a CSV that transform_files
\* wrote carries the 13 columns city, time, the 7 pollutants, aqi_category,
\* severity_score, risk_flag, hour in this order, aqi_category, severity_score
\* and risk_flag hold the row's AQI, severity and risk, and no cell is NaN.
C21_ThirteenColumnsSent ==
  \A j \in Sent :
    /\ ColsOf(records[j]) =
         <<"city", "time", "pm10", "pm2_5", "carbon_monoxide",
           "nitrogen_dioxide", "sulphur_dioxide", "ozone", "uv_index",
           "aqi_category", "severity_score", "risk_flag", "hour">>
    /\ \A k \in 1..Len(records[j]) : records[j][k].val.t # "nan"
    /\ records[j][10].val =
         IF csv.rows[j]["AQI"] = "absent" THEN None ELSE Str(csv.rows[j]["AQI"])
    /\ records[j][11].val =
         IF csv.rows[j]["severity"].t = "nan" THEN None ELSE csv.rows[j]["severity"]
    /\ records[j][12].val = Str(csv.rows[j]["risk"])

\* the rows of the batches from b on for which an insert call succeeded
RECURSIVE RowsInserted(_)
RowsInserted(b) ==
  IF b >= total_rows THEN 0
  ELSE (IF \E k \in CallsOf(b) : calls[k].ok THEN BatchLen(b) ELSE 0)
       + RowsInserted(b + BATCH_SIZE)

\* C22: with MAX_RETRIES >= 0, when load_csv_to_supabase has finished its
\* loop, inserted_rows + failed_rows = total_rows whatever the outcomes of
\* the insert calls were: inserted_rows counts the batches an insert call
\* succeeded for, failed_rows the others, and at each batch boundary the two
\* counters add up to the rows passed so far.
C22_CountsAddUp ==
  MAX_RETRIES >= 0 =>
    /\ pc \in {"summary", "loaded"} =>
         /\ inserted_rows + failed_rows = total_rows
         /\ inserted_rows = RowsInserted(0)
         /\ failed_rows = total_rows - RowsInserted(0)
    /\ (pc = "for" /\ batch_start <= total_rows) =>
         inserted_rows + failed_rows = batch_start

\* the loop has finished over a CSV whose last batch is short, with rows
\* inserted and rows failed
C22_Witness ==
  /\ pc = "loaded"
  /\ MAX_RETRIES >= 0
  /\ total_rows % BATCH_SIZE # 0
  /\ inserted_rows > 0
  /\ failed_rows > 0
  /\ inserted_rows + failed_rows = total_rows

\* the subprocess runs of a stage's script
RunsOf(st) == {k \in 1..Len(subprocess_runs) : subprocess_runs[k].stage = st}

\* C23 as stated: a stage's script is run as a subprocess only if the
\* import of its module failed or the function is missing, so no stage
\* whose function was imported and called is run a second time.
C23_NoScriptAfterCall ==
  \A st \in StageSet :
    RunsOf(st) # {} => (runner[st] \in {"import_failed", "missing"} /\ st \notin called)

\* C23, amended: a stage's script is run as a subprocess exactly when its
\* import runner returned False, which it does when the import failed, the
\* function is missing, the called function raised, or (Extract, Transform)
\* the function returned without the result the runner looks for; a stage
\* whose runner returned True is not run again, and no script is run twice.
C23_ScriptIffRunnerFalse ==
  \A st \in StageSet :
    /\ Cardinality(RunsOf(st)) <= 1
    /\ stage_ok[st] # "unset" =>
         (RunsOf(st) # {} <=>
            runner[st] \in {"import_failed", "missing", "raised", "not_ok"})
    /\ runner[st] = "ok" => (st \in called /\ RunsOf(st) = {})
    /\ st \in called <=> runner[st] \in {"raised", "not_ok", "ok"}

\* the pipeline has finished: the function of Transform was called and
\* raised and its script was run after it, the function of Load was called,
\* its runner returned True and its script was not run
C23_Witness ==
  /\ pc = "finished"
  /\ runner["Transform"] = "raised"
  /\ "Transform" \in called
  /\ RunsOf("Transform") # {}
  /\ runner["Load"] = "ok"
  /\ RunsOf("Load") = {}

\* the insert calls of the Telco loader made for the batch that starts at b
AttemptsOn(b) == {k \in 1..Len(attempts) : attempts[k].i = b}

\* the batches of the Telco loader: where each starts
TelcoBatches ==
  {b \in 0..telco_total_rows : batch_size > 0 /\ b < telco_total_rows /\ b % batch_size = 0}

\* the retry rule of the Telco loader, read off the insert calls made
TelcoRetryRule ==
  /\ \A b \in TelcoBatches : Cardinality(AttemptsOn(b)) <= 3
  /\ \A k \in 1..Len(attempts) :
       /\ attempts[k].i \in TelcoBatches
       /\ attempts[k].attempt > 0 =>
            /\ k > 1
            /\ attempts[k-1].i = attempts[k].i
            /\ attempts[k-1].attempt = attempts[k].attempt - 1
            /\ attempts[k-1].how = "eof"
       /\ attempts[k].attempt = 0 =>
            IF k = 1 THEN attempts[k].i = 0
            ELSE attempts[k].i = attempts[k-1].i + batch_size
       /\ (k < Len(attempts) /\ (attempts[k].how # "eof" \/ attempts[k].attempt = 2)) =>
            attempts[k+1].i = attempts[k].i + batch_size
  /\ pc = "telco_finished" => \A b \in TelcoBatches : AttemptsOn(b) # {}

\* C24: in the Telco load_to_supabase each batch is inserted with at most 3
\* attempts; a further attempt follows only a failure whose message contains
\* "EOF occurred in violation of protocol"; any other failure, and a third
\* such failure, ends the attempts on the batch; the loader goes on with the
\* next batch every time, and once in the loop it reaches its finished message.
C24_RetryOnlyOnEof ==
  /\ []TelcoRetryRule
  /\ (pc = "telco_for") ~> (pc = "telco_finished")

\* the loader has finished two batches: the first failed three times with
\* the EOF message, the second failed once with another message
C24_Witness ==
  /\ pc = "telco_finished"
  /\ Len(attempts) = 4
  /\ \A k \in 1..3 : attempts[k].i = 0 /\ attempts[k].how = "eof"
  /\ attempts[4].i = batch_size
  /\ attempts[4].how = "other"

====
